---- MODULE Spec2Model ----
(***************************************************************************)
(* A model of secrust: the CFG builder, the merge-point post-processor,    *)
(* the path extractor, the weakest-precondition walker and the SMT adaptor *)
(* (lowering and validity check).                                          *)
(*                                                                         *)
(* Source text is modelled as a token sequence (what proc_macro2 makes of  *)
(* a string and what quote!/to_string print, white space aside), syn       *)
(* expressions as tagged tuples, and the petgraph graph as a node sequence *)
(* (index = position) and an edge sequence in insertion order.             *)
(***************************************************************************)
EXTENDS Integers, Sequences, FiniteSets, TLC

\* ------------------------------------------------------------------------
\* Bounds of the model
\* ------------------------------------------------------------------------
\* Integer valuations range over -MaxVal .. MaxVal.
MaxVal == 2
\* A function body holds at most MaxPosts post! statements.
MaxPosts == 2
\* The longest >>-chain drawn as an input of the lowering.
MaxChain == 3

\* ------------------------------------------------------------------------
\* Tokens and the syn expression parser (syn::parse_str / syn::parse2)
\* ------------------------------------------------------------------------
IdentTokens == {"x", "n", "i", "v", "sum", "pre", "post", "invariant", "build_cfg", "push"}
IntLitTokens == {"0", "1", "2", "3"}
BoolLitTokens == {"true", "false"}
CompareOps == {"==", "!=", "<", "<=", ">", ">="}
AssignOps == {"+=", "-=", "*=", "/="}

IsIdent(t) == t \in IdentTokens
IsLit(t) == t \in IntLitTokens \cup BoolLitTokens

\* Binary operator precedence of Rust expressions, as syn parses them
\* (0: not a binary operator).
Precedence(op) ==
    CASE op \in {"*", "/"} -> 7
      [] op \in {"+", "-"} -> 6
      [] op \in {">>", "<<"} -> 5
      [] op \in CompareOps -> 3
      [] op = "&&" -> 2
      [] op = "||" -> 1
      [] OTHER -> 0

ParseFail == [ok |-> FALSE, e |-> <<>>, rest |-> <<>>]
Parsed(e, rest) == [ok |-> TRUE, e |-> e, rest |-> rest]

\* The concatenation of the sequences of a sequence.
RECURSIVE Concat(_)
Concat(ss) ==
    CASE Len(ss) = 0 -> <<>>
      [] Len(ss) = 1 -> ss[1]
      [] OTHER -> Concat(SubSeq(ss, 1, Len(ss) \div 2))
                     \o Concat(SubSeq(ss, Len(ss) \div 2 + 1, Len(ss)))

\* Index of the ")" closing the group whose inside starts at ts[i], depth
\* groups being open there: the first ")" from i on that closes one group
\* more than the tokens from i on open; 0: none.
MatchClose(ts, i, depth) ==
    LET Count(t, k) == Cardinality({j \in i..k : ts[j] = t})
        closing == {k \in i..Len(ts) :
                       ts[k] = ")" /\ Count(")", k) = Count("(", k) + depth}
    IN IF closing = {} THEN 0 ELSE CHOOSE k \in closing : \A m \in closing : k <= m

ParseFailTree == <<"Fail">>

\* The number of groups open at ts[k].
Level(ts, k) ==
    Cardinality({j \in 1..(k - 1) : ts[j] = "("}) - Cardinality({j \in 1..(k - 1) : ts[j] = ")"})

\* ts[k] stands where a binary operator is looked for: after an operand.
IsBinaryAt(ts, k) ==
    /\ Precedence(ts[k]) > 0
    /\ k > 1
    /\ ~(ts[k] = "-" /\ (Precedence(ts[k - 1]) > 0 \/ ts[k - 1] = "!"))

\* The tree of ts read as one expression, ParseFailTree standing where no
\* expression can be read.  With ambiguous, the operators below the binary
\* ones are read first: a range a .. b, an assignment a = b or a op= b
\* (right-associative), split at the first of them outside any group.  The
\* binary operators are left-associative, so the tree splits at the last of
\* the operators of lowest precedence outside any group; comparison
\* operators do not chain.  What is left is a unary expression or an atom:
\* ! e, - e, ( e ), name!( tokens ), a path, a literal.
RECURSIVE ParseTree(_, _)
ParseTree(ts, ambiguous) ==
    LET top == {k \in 1..Len(ts) : Level(ts, k) = 0}
        low == IF ambiguous THEN {k \in top : ts[k] \in {"..", "="} \cup AssignOps} ELSE {}
        first == CHOOSE k \in low : \A m \in low : k <= m
        ops == {k \in top : IsBinaryAt(ts, k)}
        root == CHOOSE k \in ops : \A m \in ops :
                    \/ Precedence(ts[m]) > Precedence(ts[k])
                    \/ Precedence(ts[m]) = Precedence(ts[k]) /\ m <= k
        Left(k) == SubSeq(ts, 1, k - 1)
        Right(k) == SubSeq(ts, k + 1, Len(ts))
    IN CASE low # {} /\ ts[first] = ".." ->
              <<"Range", ParseTree(Left(first), FALSE), ParseTree(Right(first), FALSE)>>
         [] low # {} /\ ts[first] = "=" ->
              <<"Assign", ParseTree(Left(first), FALSE), ParseTree(Right(first), TRUE)>>
         [] low # {} /\ ts[first] \in AssignOps ->
              <<"AssignOp", ts[first], ParseTree(Left(first), FALSE),
                                       ParseTree(Right(first), TRUE)>>
         [] low = {} /\ ops # {} /\ ts[root] \in CompareOps
               /\ \E m \in ops : m # root /\ ts[m] \in CompareOps ->
              ParseFailTree
         [] low = {} /\ ops # {} ->
              <<"Binary", ts[root], ParseTree(Left(root), FALSE), ParseTree(Right(root), FALSE)>>
         [] low = {} /\ ops = {} /\ ts # <<>> /\ Head(ts) \in {"!", "-"} ->
              <<"Unary", Head(ts), ParseTree(Tail(ts), FALSE)>>
         [] low = {} /\ ops = {} /\ ts # <<>> /\ Head(ts) = "("
               /\ MatchClose(ts, 2, 1) = Len(ts) ->
              <<"Paren", ParseTree(SubSeq(ts, 2, Len(ts) - 1), TRUE)>>
         [] low = {} /\ ops = {} /\ Len(ts) >= 3 /\ IsIdent(Head(ts)) /\ ts[2] = "!"
               /\ ts[3] = "(" /\ MatchClose(ts, 4, 1) = Len(ts) ->
              <<"Macro", Head(ts), SubSeq(ts, 4, Len(ts) - 1)>>
         [] low = {} /\ ops = {} /\ Len(ts) = 1 /\ IsIdent(Head(ts)) -> <<"Path", Head(ts)>>
         [] low = {} /\ ops = {} /\ Len(ts) = 1 /\ IsLit(Head(ts)) -> <<"Lit", Head(ts)>>
         [] OTHER -> ParseFailTree

\* The tree holds a place where no expression could be read.
RECURSIVE Failed(_)
Failed(e) ==
    CASE e[1] = "Fail" -> TRUE
      [] e[1] = "Paren" -> Failed(e[2])
      [] e[1] = "Unary" -> Failed(e[3])
      [] e[1] \in {"Binary", "AssignOp"} -> Failed(e[3]) \/ Failed(e[4])
      [] e[1] \in {"Assign", "Range"} -> Failed(e[2]) \/ Failed(e[3])
      [] OTHER -> FALSE

\* syn::parse_str::<Expr> / syn::parse2::<Expr>: the whole input is one
\* expression.
ParseExpr(ts) ==
    LET OnTree(t) == IF Failed(t) THEN ParseFail ELSE Parsed(t, <<>>)
    IN OnTree(ParseTree(ts, TRUE))

\* quote!{ #expr }: the tokens of an expression tree.  No parentheses are
\* added: only Paren nodes print them.
RECURSIVE ToTokens(_)
RECURSIVE BlockTokens(_)
ToTokens(e) ==
    CASE e[1] = "Path" -> <<e[2]>>
      [] e[1] = "Lit" -> <<e[2]>>
      [] e[1] = "Paren" -> <<"(">> \o ToTokens(e[2]) \o <<")">>
      [] e[1] = "Unary" -> <<e[2]>> \o ToTokens(e[3])
      [] e[1] = "Binary" -> ToTokens(e[3]) \o <<e[2]>> \o ToTokens(e[4])
      [] e[1] = "AssignOp" -> ToTokens(e[3]) \o <<e[2]>> \o ToTokens(e[4])
      [] e[1] = "Assign" -> ToTokens(e[2]) \o <<"=">> \o ToTokens(e[3])
      [] e[1] = "Range" -> ToTokens(e[2]) \o <<"..">> \o ToTokens(e[3])
      [] e[1] = "Macro" -> <<e[2], "!", "(">> \o e[3] \o <<")">>
      [] e[1] = "MethodCall" -> e[2]
      [] e[1] = "Call" ->
            ToTokens(e[2]) \o <<"(">>
               \o Concat([k \in 1..Len(e[3]) |->
                             (IF k = 1 THEN <<>> ELSE <<",">>) \o ToTokens(e[3][k])])
               \o <<")">>
      [] e[1] = "Return" -> <<"return">> \o (IF e[2] = <<>> THEN <<>> ELSE ToTokens(e[2][1]))
      [] e[1] = "Block" -> <<"{">> \o BlockTokens(e[2]) \o <<"}">>
      [] e[1] = "While" ->
            <<"while">> \o ToTokens(e[2]) \o <<"{">> \o BlockTokens(e[3]) \o <<"}">>
      [] e[1] = "ForLoop" ->
            <<"for">> \o e[2] \o <<"in">> \o ToTokens(e[3])
               \o <<"{">> \o BlockTokens(e[4]) \o <<"}">>
      [] e[1] = "If" ->
            <<"if">> \o ToTokens(e[2]) \o <<"{">> \o BlockTokens(e[3]) \o <<"}">>
               \o (IF e[4] = <<>> THEN <<>> ELSE <<"else">> \o ToTokens(e[4][1]))
      [] OTHER -> <<>>

BlockTokens(stmts) ==
    IF stmts = <<>> THEN <<>>
    ELSE LET st == Head(stmts) IN
         (CASE st[1] = "Semi" -> ToTokens(st[2]) \o <<";">>
            [] st[1] = "Expr" -> ToTokens(st[2])
            [] OTHER -> <<"let">>
                   \o (IF st[2][1] = "Ident"
                       THEN (IF st[2][3] THEN <<"mut">> ELSE <<>>) \o <<st[2][2]>>
                       ELSE <<st[2][2], ":", st[2][3]>>)
                   \o <<"=">> \o ToTokens(st[3]) \o <<";">>)
         \o BlockTokens(Tail(stmts))


\* ------------------------------------------------------------------------
\* The graph (petgraph::graph::DiGraph<CfgNode, String>)
\* ------------------------------------------------------------------------
\* A node weight is <<kind, text, expr>>; a node's index is its position in
\* nodes.  An edge is <<source, target, label>>; edges keeps the insertion
\* order, and petgraph walks a node's adjacency list newest edge first.
\* The cut kinds with the Cutoff marker forgotten: the fault that lets a loop
\* without an invariant go round without meeting a cut node.
CutKindsWithoutCutoff == {"Precondition", "Postcondition", "Invariant"}

CutKinds == {"Precondition", "Postcondition", "Invariant", "Cutoff"}

NoNode == 0
NoLabel == "<None>"

Kind(g, n) == g.nodes[n][1]
IsCut(g, n) == Kind(g, n) \in CutKinds

\* Rust is strict: a value is computed before what follows uses it.
Evaluated(v) == v = v

Reverse(s) == [k \in 1..Len(s) |-> s[Len(s) + 1 - k]]

\* The elements of s whose field pos is val, in order.
SelectSeqBy(s, pos, val) == LET Test(e) == e[pos] = val IN SelectSeq(s, Test)

\* node_indices(): the indices of the nodes of g, in order.
NodeIndices(g) == [k \in 1..Len(g.nodes) |-> k]

\* graph.edges(n): the outgoing edges of n, newest first; empty for an index
\* that names no node.
Edges(g, n) == Reverse(SelectSeqBy(g.edges, 1, n))
\* graph.edges_directed(n, Incoming), newest first.
IncomingEdges(g, n) == Reverse(SelectSeqBy(g.edges, 2, n))

DropEdgesOf(es, a) == LET Kept(e) == e[1] # a /\ e[2] # a IN SelectSeq(es, Kept)

Rename(k, from, to) == IF k = from THEN to ELSE k

\* Graph::remove_node(a): drops the edges of a, then moves the last node
\* into index a (swap_remove), so that node's index changes.
RemoveNode(g, a) ==
    LET last == Len(g.nodes)
        kept == DropEdgesOf(g.edges, a)
    IN [g EXCEPT
          !.nodes = IF a = last THEN SubSeq(g.nodes, 1, last - 1)
                    ELSE SubSeq([g.nodes EXCEPT ![a] = g.nodes[last]], 1, last - 1),
          !.edges = [k \in 1..Len(kept) |->
                       <<Rename(kept[k][1], last, a), Rename(kept[k][2], last, a), kept[k][3]>>]]

\* ------------------------------------------------------------------------
\* CfgBuilder: the insertion primitives
\* ------------------------------------------------------------------------
\* A builder is [nodes, edges, cur, lbl, posts]: the graph, current_node
\* (NoNode: None), next_edge_label (NoLabel: None) and the deferred
\* postconditions.
NewBuilder == [nodes |-> <<>>, edges |-> <<>>, cur |-> NoNode, lbl |-> NoLabel, posts |-> <<>>]

\* add_node: the new node is linked from current_node with the pending
\* label, which is reset only when that edge is drawn.
AddNode(b, node) ==
    LET index == Len(b.nodes) + 1 IN
    IF b.cur # NoNode
    THEN [b EXCEPT !.nodes = Append(b.nodes, node),
                   !.edges = Append(b.edges,
                       <<b.cur, index, IF b.lbl = NoLabel THEN "" ELSE b.lbl>>),
                   !.lbl = NoLabel,
                   !.cur = index]
    ELSE [b EXCEPT !.nodes = Append(b.nodes, node), !.cur = index]

AddNodeWithoutEdge(b, node) ==
    [b EXCEPT !.nodes = Append(b.nodes, node), !.cur = Len(b.nodes) + 1]

AddEdgeWithLabel(b, from, to, label) ==
    [b EXCEPT !.edges = Append(b.edges, <<from, to, label>>)]

\* clean_up_formatting strips white space next to ( ) [ ] ! . , ; and
\* re-spaces "+": on a token sequence, which holds no white space, nothing
\* is left to change.
CleanUpFormatting(toks) == toks

\* trim_end_matches(')')
TrimEndParens(toks) ==
    LET ends == {k \in 0..Len(toks) : \A j \in (k + 1)..Len(toks) : toks[j] = ")"}
    IN SubSeq(toks, 1, CHOOSE k \in ends : \A m \in ends : k <= m)

\* format_macro_args: the macro's tokens as text, trailing ')' trimmed.
FormatMacroArgs(toks) == TrimEndParens(toks)

FormatCondition(e) == CleanUpFormatting(ToTokens(e))

\* ------------------------------------------------------------------------
\* CfgBuilder: the syn visitor
\* ------------------------------------------------------------------------
\* Statements: <<"Semi", e>>, <<"Expr", e>>, <<"Local", pat, init>> with
\* pat = <<"Ident", name, isMut>> or <<"Type", name, type>>.  Statement-level
\* expressions add <<"If", cond, then, else>> (else: <<>> or <<e>>),
\* <<"While", cond, body>>, <<"ForLoop", pat, iter, body>>,
\* <<"Return", <<>> or <<e>>>>, <<"Block", stmts>>.
AnnotationMacros == {"pre", "post", "invariant", "build_cfg"}

\* quote!(#local): the text kept in the Statement node of a let binding.
LocalTokens(st) == BlockTokens(<<st>>)

CfgFunction(name, item) == <<"Function", <<name>>, <<>>>>
CfgPrecondition(text, e) == <<"Precondition", text, e>>
CfgPostcondition(text, e) == <<"Postcondition", text, e>>
CfgInvariant(text, e) == <<"Invariant", text, e>>
CfgStatement(text, st) == <<"Statement", text, st>>
CfgCutoff == <<"Cutoff", <<>>, <<>>>>
CfgCondition(text, ce) == <<"Condition", text, ce>>
CfgReturn(text, e) == <<"Return", text, e>>
CfgMergePoint == <<"MergePoint", <<>>, <<>>>>

RECURSIVE VisitExpr(_, _)
RECURSIVE VisitStmt(_, _)
RECURSIVE VisitBlock(_, _)
RECURSIVE HandleIfStatement(_, _)
RECURSIVE LoopFrom(_, _, _)

\* process_macro -> process_external_conditions with no external method of
\* that name (the contract table is empty unless src/config/conditions.json
\* is present): one Statement "Call: <macro>" without a statement subtree.
ProcessMacro(b, m) == AddNode(b, CfgStatement(<<"Call", ":">> \o ToTokens(m), <<>>))

\* handle_method_call, no external contract for the method.
HandleMethodCall(b, e) ==
    AddNode(b, CfgStatement(<<"Call", ":">> \o CleanUpFormatting(ToTokens(e)), <<"Expr", e>>))

HandleReturnStatement(b, e) ==
    AddNode(b, CfgReturn(IF e[2] = <<>> THEN <<>> ELSE ToTokens(e[2][1]), e))

HandleIfStatement(b, e) ==
    LET cond_label == IF b.lbl = "false"
                      THEN <<"else", "if", ":">> \o FormatCondition(e[2])
                      ELSE <<"if", ":">> \o FormatCondition(e[2])
        \* the end of the else branch is linked to the merge point
        OnFalseEnd(b6, merge_node) ==
            IF ~Evaluated(b6) THEN b6 ELSE
            [(IF b6.cur # NoNode THEN AddEdgeWithLabel(b6, b6.cur, merge_node, "")
              ELSE b6) EXCEPT !.cur = merge_node]
        OnElse(start, els, merge_node) ==
            OnFalseEnd(IF els[1] = "If" THEN HandleIfStatement(start, els)
                       ELSE IF els[1] = "Block" THEN VisitBlock(start, els[2])
                       ELSE VisitExpr(start, els),
                       merge_node)
        \* b4: the true branch is linked to the merge point
        OnLinked(b4, cond_node, merge_node) ==
            IF ~Evaluated(b4) THEN b4
            ELSE IF e[4] # <<>>
            THEN OnElse([b4 EXCEPT !.cur = cond_node, !.lbl = "false"], e[4][1], merge_node)
            ELSE [AddEdgeWithLabel(b4, cond_node, merge_node, "false")
                    EXCEPT !.cur = merge_node]
        \* b3: the merge point is added; b3.cur is the merge point
        OnMerge(b3, cond_node, true_branch_end) ==
            IF ~Evaluated(b3) THEN b3 ELSE
            OnLinked(IF true_branch_end # NoNode
                     THEN AddEdgeWithLabel(b3, true_branch_end, b3.cur, "")
                     ELSE b3,
                     cond_node, b3.cur)
        \* b2: the then branch is visited; b2.cur is its end
        OnTrueEnd(b2, cond_node) ==
            IF ~Evaluated(b2) THEN b2 ELSE
            OnMerge(AddNodeWithoutEdge(b2, CfgMergePoint), cond_node, b2.cur)
        \* b1: the Condition node is added; b1.cur is the Condition node
        OnCond(b1) == IF ~Evaluated(b1) THEN b1 ELSE OnTrueEnd(VisitBlock([b1 EXCEPT !.lbl = "true"], e[3]), b1.cur)
    IN OnCond(AddNode(b, CfgCondition(cond_label, <<"If", e[2]>>)))

\* The part handle_while_loop and handle_for_loop share, from the loop-back
\* node on: b1.cur is the Invariant before the loop or the new Cutoff.
LoopFrom(b1, cond_node_weight, body) ==
    LET OnMerge(b5, cond_node) == IF ~Evaluated(b5) THEN b5 ELSE AddEdgeWithLabel(b5, cond_node, b5.cur, "false")
        OnBodyEnd(b3, cond_node, loop_back_node) ==
            IF ~Evaluated(b3) THEN b3 ELSE
            OnMerge(AddNodeWithoutEdge(
                        IF b3.cur # NoNode
                        THEN AddEdgeWithLabel(b3, b3.cur, loop_back_node, "back to loop")
                        ELSE b3,
                        CfgMergePoint),
                    cond_node)
        OnCond(b2, loop_back_node) ==
            IF ~Evaluated(b2) THEN b2 ELSE
            OnBodyEnd(VisitBlock([b2 EXCEPT !.lbl = "true"], body), b2.cur, loop_back_node)
    IN IF ~Evaluated(b1) THEN b1 ELSE OnCond(AddNode(b1, cond_node_weight), b1.cur)

HasInvariant(b) == b.cur # NoNode /\ b.nodes[b.cur][1] = "Invariant"

HandleWhileLoop(b, e) ==
    LoopFrom(IF HasInvariant(b) THEN b ELSE AddNode(b, CfgCutoff),
             CfgCondition(<<"while", ":">> \o FormatCondition(e[2]), <<"While", e[2]>>),
             e[3])

HandleForLoop(b, e) ==
    LoopFrom(IF HasInvariant(b) THEN b ELSE AddNode(b, CfgCutoff),
             CfgCondition(<<"for">> \o CleanUpFormatting(e[2]) \o <<"in">>
                             \o FormatCondition(e[3]),
                          <<"ForLoop", e>>),
             e[4])

\* visit_expr: every macro is taken by the Expr::Macro arm, so the
\* invariant! handling of the catch-all arm is never reached.
VisitExpr(b, e) ==
    CASE e[1] = "If" -> HandleIfStatement(b, e)
      [] e[1] = "While" -> HandleWhileLoop(b, e)
      [] e[1] = "ForLoop" -> HandleForLoop(b, e)
      [] e[1] = "Return" -> HandleReturnStatement(b, e)
      [] e[1] = "MethodCall" -> HandleMethodCall(b, e)
      [] e[1] = "Macro" -> ProcessMacro(b, e)
      [] OTHER -> AddNode(b, CfgStatement(ToTokens(e), <<"Expr", e>>))

VisitStmt(b, st) ==
    IF st[1] = "Local" THEN AddNode(b, CfgStatement(LocalTokens(st), st))
    ELSE VisitExpr(b, st[2])

VisitBlock(b, stmts) ==
    IF stmts = <<>> \/ ~Evaluated(b) THEN b ELSE VisitBlock(VisitStmt(b, Head(stmts)), Tail(stmts))

\* add_postconditions: the deferred nodes are added one after the other
\* with add_node, then the buffer is cleared.
RECURSIVE AddAll(_, _)
AddAll(b, ns) == IF ns = <<>> \/ ~Evaluated(b) THEN b ELSE AddAll(AddNode(b, Head(ns)), Tail(ns))

AddPostconditions(b) == [AddAll(b, b.posts) EXCEPT !.posts = <<>>]

\* The gate of visit_item_fn: a statement of the body itself that is
\* `name!(...);` with name one of pre, post, invariant, build_cfg.
IsTopLevelAnnotation(st) ==
    st[1] = "Semi" /\ st[2][1] = "Macro" /\ st[2][2] \in AnnotationMacros

ContainsMacros(stmts) == \E k \in 1..Len(stmts) : IsTopLevelAnnotation(stmts[k])

\* The body loop of visit_item_fn.
RECURSIVE VisitFnBody(_, _)
VisitFnBody(b, stmts) ==
    IF stmts = <<>> \/ ~Evaluated(b) THEN b
    ELSE LET st == Head(stmts)
             m == st[2]
             b1 == IF st[1] = "Semi" /\ m[1] = "Macro"
                   THEN CASE m[2] = "build_cfg" -> b
                          [] m[2] = "pre" ->
                                AddNode(b, CfgPrecondition(FormatMacroArgs(m[3]), m))
                          [] m[2] = "post" ->
                                [b EXCEPT !.posts = Append(b.posts,
                                     CfgPostcondition(FormatMacroArgs(m[3]), m))]
                          [] m[2] = "invariant" ->
                                AddNode(b, CfgInvariant(FormatMacroArgs(m[3]), m))
                          [] OTHER -> AddNode(b, CfgStatement(ToTokens(m), <<"Expr", m>>))
                   ELSE IF st[1] = "Semi" THEN VisitExpr(b, m)
                   ELSE VisitStmt(b, st)
         IN VisitFnBody(b1, Tail(stmts))

\* visit_item_fn on the function [name, stmts].
VisitItemFn(b, fn) ==
    IF ~ContainsMacros(fn.stmts) THEN b
    ELSE LET b1 == AddNode(b, CfgFunction(fn.name, fn))
             b2 == VisitFnBody(b1, fn.stmts)
             b3 == AddPostconditions(b2)
         IN [b3 EXCEPT !.cur = NoNode]

\* ------------------------------------------------------------------------
\* post_process: merge points with one outgoing edge are spliced out
\* ------------------------------------------------------------------------
RECURSIVE AddEdgesTo(_, _, _)
AddEdgesTo(g, incoming, target) ==
    IF incoming = <<>> \/ ~Evaluated(g) THEN g
    ELSE AddEdgesTo([g EXCEPT !.edges = Append(g.edges,
                          <<Head(incoming)[1], target, Head(incoming)[3]>>)],
                    Tail(incoming), target)

MergeMergeNodes(g, source, target) ==
    RemoveNode(AddEdgesTo(g, IncomingEdges(g, source), target), source)

\* redirect_edges_and_remove that does nothing: the merge point stays in
\* the graph with its one outgoing edge.
LeaveMergePoint(g, source, new_target) == g

RedirectEdgesAndRemove(g, source, new_target) ==
    RemoveNode(AddEdgesTo(g, IncomingEdges(g, source), new_target), source)

MergeNodeIndices(g) ==
    LET IsMergePoint(k) == g.nodes[k][1] = "MergePoint" IN SelectSeq(NodeIndices(g), IsMergePoint)

\* The worklist loop: the indices are popped from the end and are not
\* re-read after a removal has renumbered the last node.
RECURSIVE PostProcessLoop(_, _)
PostProcessLoop(g, work) ==
    IF work = <<>> THEN g
    ELSE LET merge_node == work[Len(work)]
             rest == SubSeq(work, 1, Len(work) - 1)
             edges == Edges(g, merge_node)
         IN IF Len(edges) = 0 THEN PostProcessLoop(g, rest)
            ELSE IF Len(edges) = 1
            THEN LET target == edges[1][2] IN
                 IF g.nodes[target][1] = "MergePoint"
                 THEN PostProcessLoop(MergeMergeNodes(g, merge_node, target),
                                      Append(rest, target))
                 ELSE PostProcessLoop(RedirectEdgesAndRemove(g, merge_node, target), rest)
            ELSE PostProcessLoop(g, rest)

CleanLabels(g) ==
    [g EXCEPT !.nodes = [k \in 1..Len(g.nodes) |->
        IF g.nodes[k][1] \in {"Condition", "Statement"}
        THEN <<g.nodes[k][1], CleanUpFormatting(g.nodes[k][2]), g.nodes[k][3]>>
        ELSE g.nodes[k]]]

PostProcess(g) == CleanLabels(PostProcessLoop(g, MergeNodeIndices(g)))

\* ------------------------------------------------------------------------
\* generate_simple_paths / find_paths
\* ------------------------------------------------------------------------
\* negate_condition: !(e)
NegateCondition(e) == <<"Unary", "!", <<"Paren", e>>>>

\* ToTokens for ConditionalExpr
ConditionalTokens(ce) == ToTokens(ce[2])

\* The condition a Condition node holds after find_paths follows an edge
\* labelled edge_label out of it.
UpdatedCondition(ce, edge_label) ==
    IF edge_label = "false" /\ ce[1] \in {"If", "While"}
    THEN <<ce[1], NegateCondition(ce[2])>>
    ELSE ce

\* The search state: the graph (find_paths rewrites Condition nodes), the
\* paths found, and whether the recursion ran deeper than any walk without
\* a repeated interior node can be (it then never returns).
\* The visited set of the source is written and never read.
RECURSIVE FindPaths(_, _, _)
RECURSIVE FindPathsEdges(_, _, _, _)
\* find_paths with the test current_path.len() > 1 left out: the start node
\* itself is recorded as a path.
FindPathsWithoutLengthTest(st, current_node, path) ==
    LET current_path == Append(path, current_node)
    IN IF IsCut(st.g, current_node)
       THEN [st EXCEPT !.paths = Append(st.paths, current_path)]
       ELSE FindPathsEdges(st, current_node, current_path, Edges(st.g, current_node))

FindPaths(st, current_node, path) ==
    LET current_path == Append(path, current_node)
        edges_info == Edges(st.g, current_node)
    IN IF Len(current_path) > Len(st.g.nodes) + 1 THEN [st EXCEPT !.diverged = TRUE]
       ELSE IF IsCut(st.g, current_node) /\ Len(current_path) > 1
       THEN [st EXCEPT !.paths = Append(st.paths, current_path)]
       ELSE FindPathsEdges(st, current_node, current_path, edges_info)

FindPathsEdges(st, current_node, current_path, edges_info) ==
    IF edges_info = <<>> \/ st.diverged THEN st
    ELSE LET target == Head(edges_info)[2]
             edge_label == Head(edges_info)[3]
             node == st.g.nodes[current_node]
             st1 == IF node[1] = "Condition" /\ node[3] # <<>>
                    THEN LET updated_expr == UpdatedCondition(node[3], edge_label) IN
                         [st EXCEPT !.g.nodes[current_node] =
                             CfgCondition(<<"assume", ":">> \o ConditionalTokens(updated_expr),
                                          updated_expr)]
                    ELSE st
         IN FindPathsEdges(FindPaths(st1, target, current_path),
                           current_node, current_path, Tail(edges_info))

\* get_condition_nodes keeping the Precondition nodes only: the searches
\* that start at the other cut nodes are lost.
GetPreconditionNodes(g) ==
    LET IsPre(k) == Kind(g, k) = "Precondition" IN SelectSeq(NodeIndices(g), IsPre)

\* get_condition_nodes: the cut nodes, in index order.
GetConditionNodes(g) ==
    LET IsCondition(k) == IsCut(g, k) IN SelectSeq(NodeIndices(g), IsCondition)

RECURSIVE FindFromAll(_, _)
FindFromAll(st, starts) ==
    IF starts = <<>> \/ st.diverged THEN st
    ELSE FindFromAll(FindPaths(st, Head(starts), <<>>), Tail(starts))

GenerateSimplePaths(g) ==
    FindFromAll([g |-> g, paths |-> <<>>, diverged |-> FALSE], GetConditionNodes(g))

\* ------------------------------------------------------------------------
\* The weakest-precondition walker (wp_calculus.rs)
\* ------------------------------------------------------------------------
NoAssignment == <<>>
NoExpr == <<>>
ParsePanic == <<"Panic">>

\* parse_assignment: the statement text, a ';' appended when missing, is
\* parsed as one statement; the result is <<var, expr>> or NoAssignment.
\* A compound assignment keeps its operator token in the binary expression
\* that is built (op: assign_op.op), so x += e gives the expression x += e.
ParseAssignment(stmt_str) ==
    LET OnInit(var, init) == IF init.ok THEN <<var, init.e>> ELSE NoAssignment
        \* pat: the tokens after let [mut]
        OnLocal(pat) ==
            IF Len(pat) >= 3 /\ IsIdent(pat[1]) /\ pat[2] = "="
            THEN OnInit(pat[1], ParseExpr(SubSeq(pat, 3, Len(pat))))
            ELSE NoAssignment
        OnExpr(r) ==
            IF ~r.ok THEN NoAssignment
            ELSE IF r.e[1] = "Assign" /\ r.e[2][1] = "Path" THEN <<r.e[2][2], r.e[3]>>
            ELSE IF r.e[1] = "AssignOp" /\ r.e[3][1] = "Path"
            THEN <<r.e[3][2], <<"Binary", r.e[2], r.e[3], r.e[4]>>>>
            ELSE NoAssignment
        \* body: the statement without its ';'
        OnStmt(body) ==
            IF body # <<>> /\ Head(body) = "let"
            THEN OnLocal(IF Len(body) >= 2 /\ body[2] = "mut"
                         THEN SubSeq(body, 3, Len(body)) ELSE Tail(body))
            ELSE OnExpr(ParseExpr(body))
    IN OnStmt(IF stmt_str # <<>> /\ stmt_str[Len(stmt_str)] = ";"
              THEN SubSeq(stmt_str, 1, Len(stmt_str) - 1) ELSE stmt_str)

\* substitute_in_token_stream: every identifier token equal to var becomes
\* the tokens of the replacement; groups are walked with the same
\* replacement, so the flat token sequence is mapped token by token.
SubstituteInTokenStream(tokens, var, replacement) ==
    Concat([k \in 1..Len(tokens) |->
               IF tokens[k] = var THEN ToTokens(replacement) ELSE <<tokens[k]>>])

\* recursive_substitution: the replacement is wrapped in a Paren node on
\* entry, and the wrapped replacement is what the recursive calls receive.
\* A call is <<"Call", func, args>>.

\* A substitution that takes every identifier for the variable.
SubstituteEveryPath(expr, var, replacement_without_paren) ==
    IF expr[1] = "Path" THEN <<"Paren", replacement_without_paren>> ELSE expr

RECURSIVE RecursiveSubstitution(_, _, _)
RECURSIVE RecursiveSubstituteStmt(_, _, _)
RecursiveSubstitution(expr, var, replacement_without_paren) ==
    LET replacement == <<"Paren", replacement_without_paren>> IN
    CASE expr[1] = "Path" -> IF expr[2] = var THEN replacement ELSE expr
      [] expr[1] = "Macro" ->
            <<"Macro", expr[2], SubstituteInTokenStream(expr[3], var, replacement)>>
      [] expr[1] = "Assign" ->
            <<"Assign", RecursiveSubstitution(expr[2], var, replacement),
                        RecursiveSubstitution(expr[3], var, replacement)>>
      [] expr[1] = "Binary" ->
            <<"Binary", expr[2], RecursiveSubstitution(expr[3], var, replacement),
                                 RecursiveSubstitution(expr[4], var, replacement)>>
      [] expr[1] = "Unary" ->
            <<"Unary", expr[2], RecursiveSubstitution(expr[3], var, replacement)>>
      [] expr[1] = "Paren" -> <<"Paren", RecursiveSubstitution(expr[2], var, replacement)>>
      [] expr[1] = "Call" ->
            <<"Call", RecursiveSubstitution(expr[2], var, replacement),
                      [k \in 1..Len(expr[3]) |->
                          RecursiveSubstitution(expr[3][k], var, replacement)]>>
      [] expr[1] = "Block" ->
            <<"Block", [k \in 1..Len(expr[2]) |->
                           RecursiveSubstituteStmt(expr[2][k], var, replacement)]>>
      [] expr[1] = "If" ->
            <<"If", RecursiveSubstitution(expr[2], var, replacement),
                    [k \in 1..Len(expr[3]) |->
                        RecursiveSubstituteStmt(expr[3][k], var, replacement)],
                    [k \in 1..Len(expr[4]) |->
                        RecursiveSubstitution(expr[4][k], var, replacement)]>>
      [] OTHER -> expr

\* recursive_substitute_stmt: the expression of an expression statement
\* and the initialiser of a let binding.
RecursiveSubstituteStmt(stmt, var, replacement) ==
    IF stmt[1] = "Local"
    THEN <<"Local", stmt[2], RecursiveSubstitution(stmt[3], var, replacement)>>
    ELSE <<stmt[1], RecursiveSubstitution(stmt[2], var, replacement)>>

WrapWithParens(expr) == <<"Paren", expr>>

\* position of the first occurrence of n in path; 0: none
Position(path, n, k) ==
    LET found == {j \in k..Len(path) : path[j] = n}
    IN IF found = {} THEN 0 ELSE CHOOSE j \in found : \A m \in found : j <= m

\* edges_connecting(a, b): the edges from a to b, newest first
EdgesConnecting(g, a, b) == SelectSeqBy(Edges(g, a), 2, b)

IsFalseBranch(g, path, current_node) ==
    LET index == Position(path, current_node, 1) IN
    IF index = 0 \/ index + 1 > Len(path) THEN FALSE
    ELSE LET es == EdgesConnecting(g, current_node, path[index + 1]) IN
         es # <<>> /\ es[1][3] = "false"

\* to_syn_expr of ConditionalExpr: the condition of an if or a while, the
\* iterated expression of a for loop.
ToSynExpr(ce) == IF ce[1] = "ForLoop" THEN ce[2][3] ELSE ce[2]

\* The expression a Condition node contributes to the chain.
ConditionContribution(ce, is_false_branch) ==
    IF ce[1] \in {"If", "While"}
    THEN IF is_false_branch THEN NegateCondition(ce[2]) ELSE WrapWithParens(ce[2])
    ELSE ToSynExpr(ce)

\* syn::parse2(quote!{ #expr >> #existing_cond }).expect(..)
Chain(expr, existing_cond) ==
    LET OnParsed(r) == IF r.ok THEN r.e ELSE ParsePanic
    IN IF existing_cond = NoExpr THEN expr
       ELSE OnParsed(ParseExpr(ToTokens(expr) \o <<">>">> \o ToTokens(existing_cond)))

\* One step of the reverse walk: the working condition after the node.
WpStep(g, path, node_index, working_condition) ==
    LET node == g.nodes[node_index]
        OnAssignment(asg) ==
            IF asg # NoAssignment /\ working_condition # NoExpr
            THEN RecursiveSubstitution(working_condition, asg[1], asg[2])
            ELSE working_condition
        contribution ==
            IF node[1] = "Condition"
            THEN ConditionContribution(node[3], IsFalseBranch(g, path, node_index))
            ELSE node[3]
    IN IF working_condition = ParsePanic THEN ParsePanic
       ELSE IF node[1] = "Statement" THEN OnAssignment(ParseAssignment(node[2]))
       ELSE IF node[1] \in {"Condition", "Postcondition", "Invariant", "Precondition"}
               /\ node[3] # <<>>
       THEN Chain(contribution, working_condition)
       ELSE working_condition

\* The reverse walk of one path, from its k-th node down to the first:
\* entry j of the result is [node, before, after] for the j-th node met.
RECURSIVE WpWalk(_, _, _, _)
WpWalk(g, path, k, working_condition) ==
    LET OnStep(after) ==
            <<[node |-> path[k], before |-> working_condition, after |-> after]>>
               \o WpWalk(g, path, k - 1, after)
    IN IF k = 0 THEN <<>> ELSE OnStep(WpStep(g, path, path[k], working_condition))

\* The working condition at the end of the walk of a path.
WpOfWalk(walk) == IF walk = <<>> THEN NoExpr ELSE walk[Len(walk)].after

\* The walks of all the paths.
WpWalks(g, paths) == [k \in 1..Len(paths) |-> WpWalk(g, paths[k], Len(paths[k]), NoExpr)]

\* The formulas pushed in the order opposite to that of the paths: the
\* last path's formula first.
CollectLastPathFirst(walks, k) ==
    LET n == Len(walks)
        cond(j) == WpOfWalk(walks[n + 1 - j])
    IN IF \E j \in k..n : cond(j) = ParsePanic THEN ParsePanic
       ELSE Concat([j \in 1..(n + 1 - k) |->
                       IF cond(j) = NoExpr THEN <<>> ELSE <<ToTokens(cond(j))>>])

\* apply_wp_calculus: one printed formula for each path whose walk ends
\* with a working condition; <<"Panic">> when an expect() fails.
RECURSIVE Collect(_, _)
Collect(walks, k) ==
    LET OnRest(cond, rest) ==
            IF cond = ParsePanic \/ rest = ParsePanic THEN ParsePanic
            ELSE IF cond = NoExpr THEN rest
            ELSE <<ToTokens(cond)>> \o rest
    IN IF k > Len(walks) THEN <<>>
       ELSE OnRest(WpOfWalk(walks[k]), Collect(walks, k + 1))

ApplyWpCalculus(g, paths) == Collect(WpWalks(g, paths), 1)

\* ------------------------------------------------------------------------
\* The substitution walker run_verification calls (substitution.rs)
\* ------------------------------------------------------------------------
\* parse_assignment of substitution.rs: a plain or a compound assignment to
\* an identifier; a let binding gives None.
SubstParseAssignment(stmt_str) ==
    LET OnExpr(r) ==
            IF ~r.ok THEN NoAssignment
            ELSE IF r.e[1] = "Assign" /\ r.e[2][1] = "Path" THEN <<r.e[2][2], r.e[3]>>
            ELSE IF r.e[1] = "AssignOp" /\ r.e[3][1] = "Path"
            THEN <<r.e[3][2], <<"Binary", r.e[2], r.e[3], r.e[4]>>>>
            ELSE NoAssignment
        OnStmt(body) ==
            IF body # <<>> /\ Head(body) = "let" THEN NoAssignment
            ELSE OnExpr(ParseExpr(body))
    IN OnStmt(IF stmt_str # <<>> /\ stmt_str[Len(stmt_str)] = ";"
              THEN SubSeq(stmt_str, 1, Len(stmt_str) - 1) ELSE stmt_str)

\* recursive_substitution of substitution.rs: the replacement is cloned
\* into the tree as it is, without parentheses.
RECURSIVE SubstRecursiveSubstitution(_, _, _)
SubstRecursiveSubstitution(expr, var, replacement) ==
    CASE expr[1] = "Path" -> IF expr[2] = var THEN replacement ELSE expr
      [] expr[1] = "Macro" ->
            <<"Macro", expr[2], SubstituteInTokenStream(expr[3], var, replacement)>>
      [] expr[1] = "Assign" ->
            <<"Assign", SubstRecursiveSubstitution(expr[2], var, replacement),
                        SubstRecursiveSubstitution(expr[3], var, replacement)>>
      [] expr[1] = "Binary" ->
            <<"Binary", expr[2], SubstRecursiveSubstitution(expr[3], var, replacement),
                                 SubstRecursiveSubstitution(expr[4], var, replacement)>>
      [] expr[1] = "Unary" ->
            <<"Unary", expr[2], SubstRecursiveSubstitution(expr[3], var, replacement)>>
      [] expr[1] = "Paren" ->
            <<"Paren", SubstRecursiveSubstitution(expr[2], var, replacement)>>
      [] OTHER -> expr

\* variable_state.insert(var, expr)
Insert(variable_state, var, expr) ==
    [v \in DOMAIN variable_state \cup {var} |-> IF v = var THEN expr ELSE variable_state[v]]

\* substitute_variables: an identifier with an entry in variable_state
\* becomes that entry; unary, binary and parenthesised expressions are
\* walked; every other expression, a macro included, is returned as it is.
RECURSIVE SubstituteVariables(_, _)
SubstituteVariables(expr, variable_state) ==
    CASE expr[1] = "Path" ->
            IF expr[2] \in DOMAIN variable_state THEN variable_state[expr[2]] ELSE expr
      [] expr[1] = "Unary" ->
            <<"Unary", expr[2], SubstituteVariables(expr[3], variable_state)>>
      [] expr[1] = "Binary" ->
            <<"Binary", expr[2], SubstituteVariables(expr[3], variable_state),
                                 SubstituteVariables(expr[4], variable_state)>>
      [] expr[1] = "Paren" -> <<"Paren", SubstituteVariables(expr[2], variable_state)>>
      [] OTHER -> expr

\* syn::parse2(quote!{ #expr && #existing_cond }).expect(..)
Conjoin(expr, existing_cond) ==
    LET OnParsed(r) == IF r.ok THEN r.e ELSE ParsePanic
    IN IF existing_cond = NoExpr THEN expr
       ELSE OnParsed(ParseExpr(ToTokens(expr) \o <<"&&">> \o ToTokens(existing_cond)))

\* One node of the reverse walk of apply_substitution: ws is
\* [variable_state, working_condition].
SubstStep(g, node_index, ws) ==
    LET node == g.nodes[node_index]
        OnLocal(ws1) ==
            IF node[3] # <<>> /\ node[3][1] = "Local" /\ node[3][2][1] = "Ident"
            THEN [variable_state |-> Insert(ws1.variable_state, node[3][2][2], node[3][3]),
                  working_condition |->
                      IF ws1.working_condition # NoExpr
                      THEN SubstRecursiveSubstitution(ws1.working_condition,
                                                      node[3][2][2], node[3][3])
                      ELSE NoExpr]
            ELSE ws1
        OnAssignment(asg) ==
            OnLocal(IF asg = NoAssignment THEN ws
                    ELSE [variable_state |-> Insert(ws.variable_state, asg[1], asg[2]),
                          working_condition |->
                              IF ws.working_condition # NoExpr
                              THEN SubstRecursiveSubstitution(ws.working_condition,
                                                              asg[1], asg[2])
                              ELSE NoExpr])
        OnExpr(expr) ==
            [ws EXCEPT !.working_condition =
                Conjoin(SubstituteVariables(expr, ws.variable_state), ws.working_condition)]
    IN IF ws.working_condition = ParsePanic THEN ws
       ELSE IF node[1] = "Statement" THEN OnAssignment(SubstParseAssignment(node[2]))
       ELSE IF node[1] = "Condition" /\ node[3] # <<>> THEN OnExpr(ToSynExpr(node[3]))
       ELSE IF node[1] \in {"Postcondition", "Invariant", "Precondition"} /\ node[3] # <<>>
       THEN OnExpr(node[3])
       ELSE ws

\* The reverse walk of one path, from its k-th node down to the first.
RECURSIVE SubstWalk(_, _, _, _)
SubstWalk(g, path, k, ws) ==
    IF k = 0 \/ ~Evaluated(ws) THEN ws
    ELSE SubstWalk(g, path, k - 1, SubstStep(g, path[k], ws))

NoVariables == [v \in {} |-> NoExpr]

\* The working condition apply_substitution ends the walk of a path with.
SubstOfPath(g, path) ==
    SubstWalk(g, path, Len(path),
              [variable_state |-> NoVariables, working_condition |-> NoExpr]).working_condition

\* apply_substitution: one printed formula for each path whose walk ends
\* with a working condition; <<"Panic">> when an expect() fails.
RECURSIVE SubstCollect(_, _, _)
SubstCollect(g, paths, k) ==
    LET OnRest(cond, rest) ==
            IF cond = ParsePanic \/ rest = ParsePanic THEN ParsePanic
            ELSE IF cond = NoExpr THEN rest
            ELSE <<ToTokens(cond)>> \o rest
    IN IF k > Len(paths) THEN <<>>
       ELSE OnRest(SubstOfPath(g, paths[k]), SubstCollect(g, paths, k + 1))

ApplySubstitution(g, paths) == SubstCollect(g, paths, 1)

\* ------------------------------------------------------------------------
\* The SMT adaptor: lowering (z3_parser.rs)
\* ------------------------------------------------------------------------
\* A lowering result is [s, t, vars]: the sort "Bool" or "Int" of the term
\* t and the environment of identifiers, or s = "Panic" when the lowering
\* aborts.  Terms: <<"int", k>>, <<"bool", b>>, <<"const", name>>,
\* <<"not", t>>, <<op, l, r>>.
Z3Panic == [s |-> "Panic", t |-> <<>>, vars |-> {}]
Z3Bool(t, vars) == [s |-> "Bool", t |-> t, vars |-> vars]
Z3Int(t, vars) == [s |-> "Int", t |-> t, vars |-> vars]

\* base10_parse::<i64> of an integer literal token
LitValue(t) == CASE t = "0" -> 0 [] t = "1" -> 1 [] t = "2" -> 2 [] OTHER -> 3

\* get_or_create_var: an identifier is an Int constant of the environment
GetOrCreateVar(name, vars) == Z3Int(<<"const", name>>, vars \cup {name})

\* ImplicationPlaceholder::to_z3_implies: reverse, then reduce with
\* implies(expr, acc).
RECURSIVE Reduce(_, _)
Reduce(acc, rest) ==
    IF rest = <<>> THEN acc ELSE Reduce(<<"implies", Head(rest), acc>>, Tail(rest))

\* to_z3_implies without the rev(): the fold nests to the left.
ToZ3ImpliesWithoutRev(chain) == Reduce(Head(chain), Tail(chain))

ToZ3Implies(chain) == LET r == Reverse(chain) IN Reduce(Head(r), Tail(r))

RECURSIVE GenerateZ3Ast(_, _)
RECURSIVE ExtractChain(_, _)

\* The arms for the binary operators with one more: != lowered as the
\* negation of the equality, an operator generate_z3_ast does not support.
LowerBinaryWithNe(op, l, r) ==
    LET ints == l.s = "Int" /\ r.s = "Int"
        bools == l.s = "Bool" /\ r.s = "Bool"
        name == CASE op = "&&" -> "and" [] op = "||" -> "or" [] op = "==" -> "eq"
                  [] op = "<=" -> "le" [] op = ">=" -> "ge" [] op = "<" -> "lt"
                  [] op = ">" -> "gt" [] op = "+" -> "add" [] op = "-" -> "sub"
                  [] op = "*" -> "mul" [] op = "/" -> "div" [] OTHER -> "none"
    IN CASE op = "!=" /\ (ints \/ bools) -> Z3Bool(<<"not", <<"eq", l.t, r.t>>>>, r.vars)
         [] op \in {"&&", "||"} /\ bools -> Z3Bool(<<name, l.t, r.t>>, r.vars)
         [] op = "==" /\ (ints \/ bools) -> Z3Bool(<<name, l.t, r.t>>, r.vars)
         [] op \in {"<=", ">=", "<", ">"} /\ ints -> Z3Bool(<<name, l.t, r.t>>, r.vars)
         [] op \in {"+", "-", "*", "/"} /\ ints -> Z3Int(<<name, l.t, r.t>>, r.vars)
         [] OTHER -> Z3Panic

\* The arms of generate_z3_ast for the binary operators other than >>.
LowerBinary(op, l, r) ==
    LET vars == r.vars
        ints == l.s = "Int" /\ r.s = "Int"
        bools == l.s = "Bool" /\ r.s = "Bool"
    IN CASE op = "&&" -> IF bools THEN Z3Bool(<<"and", l.t, r.t>>, vars) ELSE Z3Panic
         [] op = "||" -> IF bools THEN Z3Bool(<<"or", l.t, r.t>>, vars) ELSE Z3Panic
         [] op = "==" -> IF ints \/ bools THEN Z3Bool(<<"eq", l.t, r.t>>, vars) ELSE Z3Panic
         [] op = "<=" -> IF ints THEN Z3Bool(<<"le", l.t, r.t>>, vars) ELSE Z3Panic
         [] op = ">=" -> IF ints THEN Z3Bool(<<"ge", l.t, r.t>>, vars) ELSE Z3Panic
         [] op = "<" -> IF ints THEN Z3Bool(<<"lt", l.t, r.t>>, vars) ELSE Z3Panic
         [] op = ">" -> IF ints THEN Z3Bool(<<"gt", l.t, r.t>>, vars) ELSE Z3Panic
         [] op = "+" -> IF ints THEN Z3Int(<<"add", l.t, r.t>>, vars) ELSE Z3Panic
         [] op = "-" -> IF ints THEN Z3Int(<<"sub", l.t, r.t>>, vars) ELSE Z3Panic
         [] op = "*" -> IF ints THEN Z3Int(<<"mul", l.t, r.t>>, vars) ELSE Z3Panic
         [] op = "/" -> IF ints THEN Z3Int(<<"div", l.t, r.t>>, vars) ELSE Z3Panic
         [] OTHER -> Z3Panic

\* extract_chain: the elements of the >>-chain on the left spine of expr,
\* in textual order, as [ok, chain, vars].
ExtractChain(expr, vars) ==
    LET NoChain == [ok |-> FALSE, chain |-> <<>>, vars |-> {}]
        OnElement(chain, r) ==
            IF r.s = "Bool" THEN [ok |-> TRUE, chain |-> Append(chain, r.t), vars |-> r.vars]
            ELSE NoChain
        OnLeft(c) ==
            IF ~c.ok THEN c ELSE OnElement(c.chain, GenerateZ3Ast(expr[4], c.vars))
    IN IF expr[1] = "Binary" /\ expr[2] = ">>"
       THEN OnLeft(ExtractChain(expr[3], vars))
       ELSE OnElement(<<>>, GenerateZ3Ast(expr, vars))

GenerateZ3Ast(expr, vars) ==
    LET OnArg(arg_expr) ==
            IF arg_expr.ok THEN GenerateZ3Ast(arg_expr.e, vars) ELSE Z3Panic
        OnInner(inner_ast) ==
            IF inner_ast.s = "Bool" THEN Z3Bool(<<"not", inner_ast.t>>, inner_ast.vars)
            ELSE Z3Panic
        OnChain(c, right_ast) ==
            IF c.ok /\ right_ast.s = "Bool"
            THEN Z3Bool(ToZ3Implies(Append(c.chain, right_ast.t)), c.vars)
            ELSE Z3Panic
        OnRight(left_ast, right_ast) ==
            IF right_ast.s = "Panic" THEN Z3Panic
            ELSE IF expr[2] = ">>"
            THEN OnChain(ExtractChain(expr[3], right_ast.vars), right_ast)
            ELSE LowerBinary(expr[2], left_ast, right_ast)
        OnLeft(left_ast) ==
            IF left_ast.s = "Panic" THEN Z3Panic
            ELSE OnRight(left_ast, GenerateZ3Ast(expr[4], left_ast.vars))
    IN CASE expr[1] = "Macro" ->
              IF expr[2] \in {"invariant", "pre", "post"} THEN OnArg(ParseExpr(expr[3]))
              ELSE Z3Panic
         [] expr[1] = "Lit" ->
              IF expr[2] \in BoolLitTokens THEN Z3Bool(<<"bool", expr[2] = "true">>, vars)
              ELSE Z3Int(<<"int", LitValue(expr[2])>>, vars)
         [] expr[1] = "Paren" -> GenerateZ3Ast(expr[2], vars)
         [] expr[1] = "Path" -> GetOrCreateVar(expr[2], vars)
         [] expr[1] = "Unary" ->
              IF expr[2] = "!" THEN OnInner(GenerateZ3Ast(expr[3], vars)) ELSE Z3Panic
         [] expr[1] = "Binary" -> OnLeft(GenerateZ3Ast(expr[3], vars))
         [] OTHER -> Z3Panic

\* post_process_implications: an implication at the top is taken apart
\* into the chain of its two arguments and built again.
PostProcessImplications(t) ==
    IF t[1] = "implies" THEN ToZ3Implies(<<t[2], t[3]>>) ELSE t

\* generate_condition_and_vars: the condition must lower to a Bool.
GenerateConditionAndVars(expr) ==
    LET OnAst(z3_condition_var) ==
            IF z3_condition_var.s = "Bool"
            THEN Z3Bool(PostProcessImplications(z3_condition_var.t), z3_condition_var.vars)
            ELSE Z3Panic
    IN OnAst(GenerateZ3Ast(expr, {}))

\* verify_conditions_for_paths up to the solver call: parse_str(..).expect,
\* then the lowering.
LowerFormula(expr_str) ==
    LET OnParsed(parsed_expr) ==
            IF parsed_expr.ok THEN GenerateConditionAndVars(parsed_expr.e) ELSE Z3Panic
    IN OnParsed(ParseExpr(expr_str))

\* ------------------------------------------------------------------------
\* The solver: the value of a term under a valuation of the Int constants
\* ------------------------------------------------------------------------
\* Integer division as the solver defines it for a positive divisor and a
\* dividend of either sign; the value for other divisors is not used by
\* the functions of the model (none divides).
RECURSIVE TermValue(_, _)
TermValue(t, val) ==
    CASE t[1] = "int" -> t[2]
      [] t[1] = "bool" -> t[2]
      [] t[1] = "const" -> val[t[2]]
      [] t[1] = "not" -> ~TermValue(t[2], val)
      [] t[1] = "and" -> TermValue(t[2], val) /\ TermValue(t[3], val)
      [] t[1] = "or" -> TermValue(t[2], val) \/ TermValue(t[3], val)
      [] t[1] = "implies" -> (TermValue(t[2], val) => TermValue(t[3], val))
      [] t[1] = "eq" -> TermValue(t[2], val) = TermValue(t[3], val)
      [] t[1] = "le" -> TermValue(t[2], val) <= TermValue(t[3], val)
      [] t[1] = "ge" -> TermValue(t[2], val) >= TermValue(t[3], val)
      [] t[1] = "lt" -> TermValue(t[2], val) < TermValue(t[3], val)
      [] t[1] = "gt" -> TermValue(t[2], val) > TermValue(t[3], val)
      [] t[1] = "add" -> TermValue(t[2], val) + TermValue(t[3], val)
      [] t[1] = "sub" -> TermValue(t[2], val) - TermValue(t[3], val)
      [] t[1] = "mul" -> TermValue(t[2], val) * TermValue(t[3], val)
      [] OTHER -> IF TermValue(t[3], val) > 0
                  THEN TermValue(t[2], val) \div TermValue(t[3], val) ELSE 0

\* ------------------------------------------------------------------------
\* The SMT adaptor: the validity check (verifier.rs, z3_verifier.rs)
\* ------------------------------------------------------------------------
\* A solver is the stack of its assertion frames and the log of the calls
\* made on it.
NewSolver == [frames |-> <<<<>>>>, log |-> <<>>]

SolverPush(sv) ==
    [frames |-> Append(sv.frames, <<>>), log |-> Append(sv.log, <<"push">>)]

SolverAssert(sv, t) ==
    [frames |-> [sv.frames EXCEPT ![Len(sv.frames)] = Append(@, t)],
     log |-> Append(sv.log, <<"assert", t>>)]

\* solver.pop(1) that leaves the frames as they are: the fault of a call
\* that forgets to drop the level it pushed.
SolverPopWithoutEffect(sv) == [frames |-> sv.frames, log |-> Append(sv.log, <<"pop">>)]

SolverPop(sv) ==
    [frames |-> SubSeq(sv.frames, 1, Len(sv.frames) - 1),
     log |-> Append(sv.log, <<"pop">>)]

Asserted(sv) == Concat(sv.frames)

Valuations(names) == [names -> (0 - MaxVal)..MaxVal]

\* solver.check(): the solver never answers unsat when the assertions have
\* a model (here: one with values in the range of the model); it may
\* answer unknown on anything.
CheckAnswers(sv, names) ==
    IF \E val \in Valuations(names) :
          \A k \in 1..Len(Asserted(sv)) : TermValue(Asserted(sv)[k], val)
    THEN {"sat", "unknown"}
    ELSE {"unsat", "sat", "unknown"}

\* verify_condition taking every answer but sat for validity.
VerifyConditionUnlessSat(solver, condition, names, answer) ==
    LET s1 == SolverAssert(SolverPush(solver), <<"not", condition>>)
        s2 == [s1 EXCEPT !.log = Append(s1.log, <<"check", answer>>)]
    IN [result |-> answer # "sat",
        printed |-> IF answer = "sat"
                    THEN <<"Condition is not valid (counterexample found).",
                           "Counterexample model assignments:", names>>
                    ELSE <<"Condition is valid (unsatisfiable when negated).">>,
        solver |-> SolverPop(s2), answer |-> answer, condition |-> condition,
        names |-> names, checked |-> s2.frames]

\* verify_condition with the answer the solver gives to check(): the
\* value returned, the lines printed and the solver afterwards.
VerifyCondition(solver, condition, names, answer) ==
    LET s1 == SolverAssert(SolverPush(solver), <<"not", condition>>)
        s2 == [s1 EXCEPT !.log = Append(s1.log, <<"check", answer>>)]
        result == answer = "unsat"
        printed == CASE answer = "unsat" ->
                          <<"Condition is valid (unsatisfiable when negated).">>
                     [] answer = "sat" ->
                          <<"Condition is not valid (counterexample found).",
                            "Counterexample model assignments:", names>>
                     [] OTHER -> <<"Solver could not determine validity.">>
    IN [result |-> result, printed |-> printed, solver |-> SolverPop(s2),
        answer |-> answer, condition |-> condition, names |-> names,
        checked |-> s2.frames]

NoVerdict ==
    [result |-> FALSE, printed |-> <<>>, solver |-> NewSolver, answer |-> "none",
     condition |-> <<>>, names |-> {}, checked |-> <<>>]

\* ------------------------------------------------------------------------
\* The input files
\* ------------------------------------------------------------------------
ExprX == <<"Path", "x">>
ExprN == <<"Path", "n">>
XPlus1 == <<"Binary", "+", ExprX, <<"Lit", "1">>>>
XGt0 == <<"Binary", ">", ExprX, <<"Lit", "0">>>>
XLtN == <<"Binary", "<", ExprX, ExprN>>
StmtInc == <<"Semi", <<"Assign", ExprX, XPlus1>>>>
StmtZero == <<"Semi", <<"Assign", ExprX, <<"Lit", "0">>>>>>
StmtAddEq == <<"Semi", <<"AssignOp", "+=", ExprX, <<"Lit", "1">>>>>>
StmtLet == <<"Local", <<"Ident", "x", TRUE>>, <<"Lit", "2">>>>
StmtReturn == <<"Semi", <<"Return", <<ExprX>>>>>>
StmtPre == <<"Semi", <<"Macro", "pre", <<"x", ">=", "0">>>>>>
StmtInvariant == <<"Semi", <<"Macro", "invariant", <<"x", ">=", "0">>>>>>
StmtPost(k) ==
    <<"Semi", <<"Macro", "post",
        CASE k = 1 -> <<"x", ">=", "0">>
          [] k = 2 -> <<"x", "+", "1", "==", "3">>
          [] OTHER -> <<"n", ">=", "0">>>>>>

\* The statements between the annotations: nothing, one construct, or two
\* if statements in a row.
ConstructList ==
    << <<>>,
      <<<<"Expr", <<"If", XGt0, <<StmtInc>>, <<>>>>>>>>,
      <<<<"Expr", <<"If", XGt0, <<StmtInc>>, <<<<"Block", <<StmtZero>>>>>>>>>>>>,
      <<<<"Expr", <<"If", XGt0, <<>>, <<>>>>>>>>,
      <<<<"Expr", <<"If", XGt0, <<StmtInc>>, <<<<"If", XLtN, <<StmtZero>>, <<>>>>>>>>>>>>,
      <<<<"Expr", <<"If", XGt0, <<StmtReturn>>, <<>>>>>>>>,
      <<<<"Expr", <<"While", XLtN, <<StmtInc>>>>>>>>,
      <<<<"Expr", <<"While", XLtN, <<<<"Expr", <<"If", XGt0, <<StmtInc>>, <<>>>>>>>>>>>>>>,
      <<<<"Expr", <<"While", XLtN, <<StmtInvariant, StmtInc>>>>>>>>,
      <<<<"Expr", <<"ForLoop", <<"i">>, <<"Range", <<"Lit", "0">>, ExprN>>, <<StmtInc>>>>>>>>,
      <<StmtReturn>>,
      <<<<"Semi", <<"MethodCall", <<"v", ".", "push", "(", "x", ")">>>>>>>>,
      <<<<"Expr", <<"While", XLtN,
            <<<<"Expr", <<"ForLoop", <<"i">>, <<"Range", <<"Lit", "0">>, ExprN>>,
                  <<StmtInc>>>>>>>>>>>>>>,
      <<<<"Expr", <<"If", XGt0, <<<<"Expr", <<"While", XLtN, <<StmtInc>>>>>>>>,
            <<<<"Block", <<StmtZero>>>>>>>>>>>>,
      <<<<"Expr", <<"If", XGt0, <<StmtInc>>, <<>>>>>>,
        <<"Expr", <<"If", XLtN, <<StmtZero>>, <<>>>>>>>> >>

Constructs == { ConstructList[k] : k \in 1..Len(ConstructList) }

Posts(k) == [j \in 1..k |-> StmtPost(j)]

Bodies ==
    { pre \o first \o inv \o construct \o Posts(k) :
        pre \in {<<>>, <<StmtPre>>},
        first \in {<<>>, <<StmtLet>>, <<StmtAddEq>>},
        inv \in {<<>>, <<StmtInvariant>>},
        construct \in Constructs,
        k \in 0..MaxPosts }

Functions == { [name |-> "f", stmts |-> body] : body \in Bodies }

\* A second function after one that ends inside a construct.
SecondFunction == [name |-> "g", stmts |-> <<StmtPost(1)>>]

\* fn f(n: i64) { pre!(n >= 0); let mut i = 1; let mut sum = 0;
\*   while i <= n { invariant!(i <= n + 1 && sum == (i - 1) * i / 2);
\*     sum = sum + i; i = i + 1; }
\*   post!(sum == n * (n + 1) / 2); }
TriangularInvariant ==
    <<"i", "<=", "n", "+", "1", "&&", "sum", "==", "(", "i", "-", "1", ")", "*", "i", "/", "2">>

TriangularPost == <<"sum", "==", "n", "*", "(", "n", "+", "1", ")", "/", "2">>

TriangularGuard == <<"Binary", "<=", <<"Path", "i">>, ExprN>>

TriangularSum ==
    [name |-> "f",
     stmts |-> << <<"Semi", <<"Macro", "pre", <<"n", ">=", "0">>>>>>,
                  <<"Local", <<"Ident", "i", TRUE>>, <<"Lit", "1">>>>,
                  <<"Local", <<"Ident", "sum", TRUE>>, <<"Lit", "0">>>>,
                  <<"Expr", <<"While", TriangularGuard,
                      << <<"Semi", <<"Macro", "invariant", TriangularInvariant>>>>,
                         <<"Semi", <<"Assign", <<"Path", "sum">>,
                                     <<"Binary", "+", <<"Path", "sum">>, <<"Path", "i">>>>>>>>,
                         <<"Semi", <<"Assign", <<"Path", "i">>,
                                     <<"Binary", "+", <<"Path", "i">>, <<"Lit", "1">>>>>>>> >>>>>>,
                  <<"Semi", <<"Macro", "post", TriangularPost>>>> >>]

\* fn g(x: i64) { pre!(true); if x > 0 { post!(x >= 0); } else { post!(x <= 0); } }
IfElsePosts ==
    [name |-> "g",
     stmts |-> << <<"Semi", <<"Macro", "pre", <<"true">>>>>>,
                  <<"Expr", <<"If", XGt0,
                      << <<"Semi", <<"Macro", "post", <<"x", ">=", "0">>>>>> >>,
                      << <<"Block",
                           << <<"Semi", <<"Macro", "post", <<"x", "<=", "0">>>>>> >>>> >>>>>> >>]

Scenarios == { <<TriangularSum>>, <<IfElsePosts>> }

Files ==
    { <<fn>> : fn \in Functions }
    \cup { <<[name |-> "f", stmts |-> <<StmtPre>> \o construct], SecondFunction>> :
             construct \in Constructs }
    \cup Scenarios

\* ------------------------------------------------------------------------
\* The state machine
\* ------------------------------------------------------------------------
VARIABLES
    pc,            \* the phase of the run
    file,          \* the parsed input: a sequence of functions
    next_fn,       \* the next function visit_file hands to visit_item_fn
    builder,       \* the CfgBuilder: graph, current node, pending label, posts
    built,         \* the graph as post_process received it
    cfg,           \* the graph as generate_simple_paths received it
    paths,         \* the paths generate_simple_paths returned
    diverged,      \* the path search does not return
    trace,         \* for each path, the working condition before and after each node
    formulas,      \* the strings apply_substitution or apply_wp_calculus returned
    next_formula,  \* the next formula handed to the verifier
    verdict,       \* the last call of verify_condition
    chain          \* the elements of the >>-chain given to the lowering alone

vars == <<pc, file, next_fn, builder, built, cfg, paths, diverged, trace, formulas,
          next_formula, verdict, chain>>

NoGraph == [nodes |-> <<>>, edges |-> <<>>]
Graph(b) == [nodes |-> b.nodes, edges |-> b.edges]

Init ==
    /\ pc = "visit"
    /\ file \in Files
    /\ next_fn = 1
    /\ builder = NewBuilder
    /\ built = NoGraph
    /\ cfg = NoGraph
    /\ paths = <<>>
    /\ diverged = FALSE
    /\ trace = <<>>
    /\ formulas = <<>>
    /\ next_formula = 1
    /\ verdict = NoVerdict
    /\ chain = <<>>

\* visit_file: visit_item_fn on each function of the file, in order.
VisitFile ==
    /\ pc = "visit"
    /\ next_fn <= Len(file)
    /\ builder' = VisitItemFn(builder, file[next_fn])
    /\ next_fn' = next_fn + 1
    /\ pc' = IF next_fn = Len(file) THEN "post_process" ELSE "visit"
    /\ UNCHANGED <<file, built, cfg, paths, diverged, trace, formulas, next_formula,
                   verdict, chain>>

PostProcessCfg ==
    /\ pc = "post_process"
    /\ built' = Graph(builder)
    /\ builder' = PostProcess(builder)
    /\ pc' = "paths"
    /\ UNCHANGED <<file, next_fn, cfg, paths, diverged, trace, formulas, next_formula,
                   verdict, chain>>

ExtractPaths ==
    LET OnReturn(st) ==
            /\ builder' = st.g
            /\ paths' = st.paths
            /\ diverged' = st.diverged
            /\ pc' = IF st.diverged THEN "diverged" ELSE "wp"
    IN /\ pc = "paths"
       /\ cfg' = Graph(builder)
       /\ OnReturn(GenerateSimplePaths(builder))
       /\ UNCHANGED <<file, next_fn, built, trace, formulas, next_formula, verdict, chain>>

\* apply_wp_calculus on the builder and the paths generate_simple_paths left:
\* the walks are kept beside the strings returned; an expect() that fails
\* aborts the run.
WeakestPreconditions ==
    LET OnReturn(walks, out) ==
            /\ trace' = walks
            /\ formulas' = IF out = ParsePanic THEN <<>> ELSE out
            /\ pc' = IF out = ParsePanic THEN "aborted" ELSE "verify"
    IN /\ pc = "wp"
       /\ OnReturn(WpWalks(builder, paths), ApplyWpCalculus(builder, paths))
       /\ UNCHANGED <<file, next_fn, builder, built, cfg, paths, diverged, next_formula,
                      verdict, chain>>

\* apply_substitution on the builder and the paths generate_simple_paths
\* left, as run_verification calls it; no walk is kept; an expect() that
\* fails aborts the run.
Substitute ==
    LET OnReturn(out) ==
            /\ formulas' = IF out = ParsePanic THEN <<>> ELSE out
            /\ pc' = IF out = ParsePanic THEN "aborted" ELSE "verify"
    IN /\ pc = "wp"
       /\ OnReturn(ApplySubstitution(builder, paths))
       /\ UNCHANGED <<file, next_fn, builder, built, cfg, paths, diverged, trace,
                      next_formula, verdict, chain>>

\* verify_conditions_for_paths on the next formula: a new solver, the
\* lowering (which may abort the run), verify_condition.
VerifyNext ==
    LET OnLowered(lowered) ==
            IF lowered.s = "Panic"
            THEN /\ pc' = "aborted"
                 /\ UNCHANGED <<verdict, next_formula>>
            ELSE /\ \E answer \in CheckAnswers(
                         SolverAssert(SolverPush(NewSolver), <<"not", lowered.t>>),
                         lowered.vars) :
                       verdict' = VerifyCondition(NewSolver, lowered.t, lowered.vars, answer)
                 /\ next_formula' = next_formula + 1
                 /\ pc' = "verify"
    IN /\ pc = "verify"
       /\ next_formula <= Len(formulas)
       /\ OnLowered(LowerFormula(formulas[next_formula]))
       /\ UNCHANGED <<file, next_fn, builder, built, cfg, paths, diverged, trace,
                      formulas, chain>>

\* The end of a run that gives up at the first formula not judged valid.
FinishAtFirstInvalid ==
    /\ pc = "verify"
    /\ next_formula > Len(formulas) \/ (verdict # NoVerdict /\ ~verdict.result)
    /\ pc' = "done"
    /\ UNCHANGED <<file, next_fn, builder, built, cfg, paths, diverged, trace, formulas,
                   next_formula, verdict, chain>>

Finish ==
    /\ pc = "verify"
    /\ next_formula > Len(formulas)
    /\ pc' = "done"
    /\ UNCHANGED <<file, next_fn, builder, built, cfg, paths, diverged, trace, formulas,
                   next_formula, verdict, chain>>

Next ==
    \/ VisitFile
    \/ PostProcessCfg
    \/ ExtractPaths
    \/ WeakestPreconditions
    \/ Substitute
    \/ VerifyNext
    \/ Finish

Spec == Init /\ [][Next]_vars

\* ------------------------------------------------------------------------
\* The lowering alone: verify_conditions_for_paths on a written >>-chain
\* ------------------------------------------------------------------------
\* The elements a chain is written from: each is an expression of sort Bool
\* that needs no parentheses next to >>.
ChainAtoms ==
    << <<"pre", "!", "(", "x", ">=", "0", ")">>,
       <<"(", "x", "<", "n", ")">>,
       <<"!", "(", "x", "<", "n", ")">>,
       <<"true">>,
       <<"false">>,
       <<"post", "!", "(", "x", "+", "1", "==", "3", ")">>,
       <<"(", "invariant", "!", "(", "x", ">=", "0", ")", ">>", "(", "n", ">", "0", ")", ")">> >>

Chains ==
    UNION { { [j \in 1..k |-> ChainAtoms[pick[j]]] : pick \in [1..k -> 1..Len(ChainAtoms)] } :
              k \in 2..MaxChain }

\* The chain as it is written: its elements joined by >>.
ChainText(c) ==
    Concat([j \in 1..Len(c) |-> IF j = 1 THEN c[j] ELSE <<">>">> \o c[j]])

InitLower ==
    /\ pc = "verify"
    /\ chain \in Chains
    /\ formulas = <<ChainText(chain)>>
    /\ file = <<>>
    /\ next_fn = 1
    /\ builder = NewBuilder
    /\ built = NoGraph
    /\ cfg = NoGraph
    /\ paths = <<>>
    /\ diverged = FALSE
    /\ trace = <<>>
    /\ next_formula = 1
    /\ verdict = NoVerdict

NextLower ==
    \/ VerifyNext
    \/ Finish

SpecLower == InitLower /\ [][NextLower]_vars

\* ------------------------------------------------------------------------
\* The properties
\* ------------------------------------------------------------------------
Range(f) == { f[k] : k \in DOMAIN f }

Successors(g, n) == { g.edges[k][2] : k \in { j \in 1..Len(g.edges) : g.edges[j][1] = n } }

Labels(g, a, b) ==
    { g.edges[k][3] : k \in { j \in 1..Len(g.edges) : g.edges[j][1] = a /\ g.edges[j][2] = b } }

\* A path that starts and ends at a cut node, has no cut node inside and
\* follows the edges of g.
IsBasicPath(g, p) ==
    /\ Len(p) >= 2
    /\ \A k \in 1..Len(p) : p[k] \in 1..Len(g.nodes)
    /\ IsCut(g, p[1])
    /\ IsCut(g, p[Len(p)])
    /\ \A k \in 2..(Len(p) - 1) : ~IsCut(g, p[k])
    /\ \A k \in 1..(Len(p) - 1) : p[k + 1] \in Successors(g, p[k])

\* C2: every path generate_simple_paths returns has at least two nodes,
\* starts and ends at a Precondition, Postcondition, Invariant or Cutoff,
\* has none of those inside, and follows edges of the graph in their
\* direction.
C2_PathsAreBasicPaths == \A k \in 1..Len(paths) : IsBasicPath(cfg, paths[k])

\* A returned path of four nodes or more that goes through a Condition node.
C2_Witness ==
    /\ pc = "wp"
    /\ \E k \in 1..Len(paths) :
          /\ Len(paths[k]) >= 4
          /\ \E j \in 2..(Len(paths[k]) - 1) : Kind(cfg, paths[k][j]) = "Condition"

\* The walks that extend w by at most fuel edges and stop at the first cut
\* node met after the start.
RECURSIVE CutWalks(_, _, _)
CutWalks(g, w, fuel) ==
    IF Len(w) > 1 /\ IsCut(g, w[Len(w)]) THEN {w}
    ELSE IF fuel = 0 THEN {}
    ELSE UNION { CutWalks(g, Append(w, t), fuel - 1) : t \in Successors(g, w[Len(w)]) }

AllCutWalks(g) ==
    UNION { CutWalks(g, <<c>>, Len(g.nodes)) : c \in { n \in 1..Len(g.nodes) : IsCut(g, n) } }

\* A node that is no cut node, has no outgoing edge and is entered by an edge.
DeadEnds(g) ==
    { n \in 1..Len(g.nodes) :
        /\ ~IsCut(g, n)
        /\ Successors(g, n) = {}
        /\ \E m \in 1..Len(g.nodes) : n \in Successors(g, m) }

\* C3: the path extractor is complete: the paths returned are exactly the
\* walks of length two or more from a cut node to the next cut node, so
\* every such walk is returned and a walk that ends at a node without
\* outgoing edges before a cut node is not.
C3_ExtractorComplete ==
    pc \in {"wp", "verify", "aborted", "done"} /\ file # <<>>
        => Range(paths) = AllCutWalks(cfg)

\* Three walks or more between cut nodes, and a dead end beside them.
C3_Witness ==
    /\ pc = "wp"
    /\ Cardinality(AllCutWalks(cfg)) >= 3
    /\ DeadEnds(cfg) # {}

\* The nodes of the set allowed reached from the set from in one to fuel
\* edges, through nodes of allowed only.
RECURSIVE Reach(_, _, _, _)
Reach(g, from, allowed, fuel) ==
    LET next == { t \in allowed : \E n \in from : t \in Successors(g, n) }
    IN IF fuel = 0 THEN {}
       ELSE next \cup Reach(g, next, allowed, fuel - 1)

NonCutNodes(g) == { n \in 1..Len(g.nodes) : ~IsCut(g, n) }

OnCutFreeCycle(g, n) ==
    n \in NonCutNodes(g) /\ n \in Reach(g, {n}, NonCutNodes(g), Len(g.nodes))

Walked(k) == k \in 1..Len(trace) /\ Len(trace[k]) = Len(paths[k])

\* The position in path k of the node of the j-th step of its walk.
PathPosition(k, j) == Len(paths[k]) - j + 1

\* The value of a source expression in a program state.
RECURSIVE Eval(_, _)
EvalBinary(op, l, r) ==
    CASE op = "+" -> l + r
      [] op = "-" -> l - r
      [] op = "*" -> l * r
      [] op = "<" -> l < r
      [] op = "<=" -> l <= r
      [] op = ">" -> l > r
      [] op = ">=" -> l >= r
      [] op = "==" -> l = r
      [] op = "!=" -> l # r
      [] op = "&&" -> l /\ r
      [] OTHER -> l \/ r

Eval(e, s) ==
    CASE e[1] = "Path" -> s[e[2]]
      [] e[1] = "Lit" -> IF e[2] \in BoolLitTokens THEN e[2] = "true" ELSE LitValue(e[2])
      [] e[1] = "Paren" -> Eval(e[2], s)
      [] e[1] = "Unary" -> ~Eval(e[3], s)
      [] e[1] = "Macro" -> Eval(ParseExpr(e[3]).e, s)
      [] OTHER -> EvalBinary(e[2], Eval(e[3], s), Eval(e[4], s))

\* The operator of a compound assignment.
BaseOp(op) == CASE op = "+=" -> "+" [] op = "-=" -> "-" [] op = "*=" -> "*" [] OTHER -> "/"

\* The assignment a statement makes, <<x, e>> for x = e, let x = e and, as
\* x = x op e, for x op= e; <<>> for any other statement.
AssignmentOf(st) ==
    IF st = <<>> THEN <<>>
    ELSE IF st[1] = "Local"
    THEN (IF st[2][1] = "Ident" THEN <<st[2][2], st[3]>> ELSE <<>>)
    ELSE IF st[2][1] = "Assign" /\ st[2][2][1] = "Path" THEN <<st[2][2][2], st[2][3]>>
    ELSE IF st[2][1] = "AssignOp" /\ st[2][3][1] = "Path"
    THEN <<st[2][3][2], <<"Binary", BaseOp(st[2][2]), st[2][3], st[2][4]>>>>
    ELSE <<>>

AnnotationKinds == {"Precondition", "Postcondition", "Invariant"}

\* A path of the kind the contract speaks of: annotation, assignments and
\* if/while conditions, annotation; each step along one edge only.
IsContractPath(g, p) ==
    /\ Len(p) >= 2
    /\ \A k \in {1, Len(p)} : Kind(g, p[k]) \in AnnotationKinds /\ g.nodes[p[k]][3] # <<>>
    /\ \A k \in 2..(Len(p) - 1) :
          \/ Kind(g, p[k]) = "Statement" /\ AssignmentOf(g.nodes[p[k]][3]) # <<>>
          \/ /\ Kind(g, p[k]) = "Condition"
             /\ g.nodes[p[k]][3] # <<>>
             /\ g.nodes[p[k]][3][1] \in {"If", "While"}
             /\ Cardinality(Labels(g, p[k], p[k + 1])) = 1

\* Running the path forward from its k-th node in state s: the path is
\* correct from there when a branch condition fails on the way or the end
\* annotation holds in the state reached.
RECURSIVE PathCorrectFrom(_, _, _, _)
PathCorrectFrom(g, p, k, s) ==
    LET node == g.nodes[p[k]]
        asg == AssignmentOf(node[3])
    IN IF k = Len(p) THEN Eval(node[3], s)
       ELSE IF node[1] = "Statement"
       THEN PathCorrectFrom(g, p, k + 1, [s EXCEPT ![asg[1]] = Eval(asg[2], s)])
       ELSE (Eval(node[3][2], s) = (Labels(g, p[k], p[k + 1]) # {"false"}))
               => PathCorrectFrom(g, p, k + 1, s)

PathCorrect(g, p, s) == Eval(g.nodes[p[1]][3], s) => PathCorrectFrom(g, p, 2, s)

ProgramVariables == {"x", "n"}

\* The truth of a printed formula under a valuation, as the verifier reads it.
FormulaHolds(lowered, val) == lowered.s = "Bool" /\ TermValue(lowered.t, val)

\* C1: for every path made of a start annotation, assignments, if/while
\* conditions and an end annotation, and every valuation of the variables,
\* the formula returned for the path is true exactly when the start
\* annotation and the branch conditions taken imply the end annotation
\* in the state the assignments lead to.
C1_FormulaMeansPathCorrect ==
    \A k \in 1..Len(paths) :
        Walked(k) /\ IsContractPath(cfg, paths[k]) =>
            LET lowered == LowerFormula(ToTokens(WpOfWalk(trace[k])))
            IN /\ lowered.s = "Bool"
               /\ \A val \in Valuations(ProgramVariables) :
                     FormulaHolds(lowered, val) = PathCorrect(cfg, paths[k], val)

\* C5: no returned path holds a node index twice, and a returned path that
\* leads from an Invariant round the loop to the same invariant ends in a
\* copy of it: another node, without outgoing edge.
C5_LoopPathEndsInCopy ==
    \A k \in 1..Len(paths) :
        LET p == paths[k] IN
        /\ \A i, j \in 1..Len(p) : i # j => p[i] # p[j]
        /\ (Kind(builder, p[1]) = "Invariant" /\ builder.nodes[p[Len(p)]] = builder.nodes[p[1]])
              => p[Len(p)] # p[1] /\ Edges(builder, p[Len(p)]) = <<>>

\* The source condition of a Condition node: the condition of an if or a
\* while, the iterated expression of a for.
SourceCondition(ce) == IF ce[1] = "ForLoop" THEN ce[2][3] ELSE ce[2]

\* The antecedents the node at position i of p may contribute: !(c) along
\* a "false" edge, (c) along any other edge.
Antecedents(g, p, i) ==
    { IF l = "false" THEN <<"Unary", "!", <<"Paren", SourceCondition(g.nodes[p[i]][3])>>>>
      ELSE <<"Paren", SourceCondition(g.nodes[p[i]][3])>> : l \in Labels(g, p[i], p[i + 1]) }

\* The working formula printed; nothing when there is none.
Printed(w) == IF w = NoExpr THEN <<>> ELSE ToTokens(w)

Chained(a, w) == IF w = NoExpr THEN ToTokens(a) ELSE ToTokens(a) \o <<">>">> \o ToTokens(w)

\* C6: at a Condition node (If, While or For) with source condition c the
\* walk puts !(c) in front of the working formula when the path leaves the
\* node by a "false" edge, and (c) otherwise.
C6_ConditionContributes ==
    \A k \in 1..Len(paths) : Walked(k) =>
        \A j \in 1..Len(trace[k]) :
            LET i == PathPosition(k, j)
                step == trace[k][j]
            IN Kind(cfg, step.node) = "Condition" /\ cfg.nodes[step.node][3] # <<>>
                  /\ i < Len(paths[k])
               => \E a \in Antecedents(cfg, paths[k], i) :
                     Printed(step.after) = Chained(a, step.before)

\* Every token equal to var replaced by the tokens of (e).
ReplaceTokens(ts, var, e) ==
    Concat([k \in 1..Len(ts) |->
               IF ts[k] = var THEN <<"(">> \o ToTokens(e) \o <<")">> ELSE <<ts[k]>>])

\* C7: at an assignment of e to x (x = e, let x = e, x op= e read as
\* x = x op e) the working formula W becomes W with every occurrence of x
\* replaced by e in one pair of parentheses, and nothing else changed.
C7_AssignmentSubstitutes ==
    \A k \in 1..Len(paths) : Walked(k) =>
        \A j \in 1..Len(trace[k]) :
            LET step == trace[k][j]
                asg == AssignmentOf(cfg.nodes[step.node][3])
            IN Kind(cfg, step.node) = "Statement" /\ asg # <<>> /\ step.before # NoExpr
               => Printed(step.after) = ReplaceTokens(Printed(step.before), asg[1], asg[2])

\* a1 => (a2 => (... => an))
RECURSIVE RightNested(_)
RightNested(ts) ==
    IF Len(ts) = 1 THEN ts[1] ELSE <<"implies", ts[1], RightNested(Tail(ts))>>

\* The contributions of the nodes walked so far (steps j..1 of the walk),
\* first node of the path first, each with the assignments met after it
\* substituted.
RECURSIVE Contributions(_, _, _, _)
Contributions(g, p, walk, j) ==
    LET node == g.nodes[walk[j].node]
        asg == ParseAssignment(node[2])
        rest == Contributions(g, p, walk, j - 1)
    IN IF j = 0 THEN <<>>
       ELSE IF node[1] = "Statement" /\ asg # NoAssignment
       THEN [i \in 1..Len(rest) |-> RecursiveSubstitution(rest[i], asg[1], asg[2])]
       ELSE IF node[1] = "Condition" /\ node[3] # <<>>
       THEN <<ConditionContribution(node[3], IsFalseBranch(g, p, walk[j].node))>> \o rest
       ELSE IF node[1] \in AnnotationKinds /\ node[3] # <<>>
       THEN <<node[3]>> \o rest
       ELSE rest

\* C9: printing the working formula and parsing and lowering the text is a
\* faithful round trip: the term is the right-nested implication of the
\* contributions of the annotation and Condition nodes, in path order,
\* each one element of the chain.
C9_RoundTrip ==
    \A k \in 1..Len(paths) : Walked(k) /\ WpOfWalk(trace[k]) # NoExpr =>
        LET elements == Contributions(builder, paths[k], trace[k], Len(trace[k]))
            terms == [i \in 1..Len(elements) |-> GenerateZ3Ast(elements[i], {})]
            lowered == LowerFormula(ToTokens(WpOfWalk(trace[k])))
        IN /\ \A i \in 1..Len(terms) : terms[i].s = "Bool"
           /\ lowered.s = "Bool"
           /\ lowered.t = RightNested([i \in 1..Len(terms) |-> terms[i].t])

\* ---- the lowering and the validity check ----
\* The term of one chain element lowered alone.
ElementTerm(ts) == GenerateZ3Ast(ParseExpr(ts).e, {}).t

\* C8: the lowering of a >>-chain of n >= 2 elements written without
\* parentheses is a1 => (a2 => (... => an)) of the lowered elements in
\* their order; a parenthesised sub-chain is one element.
C8_ChainLowersRightNested ==
    chain # <<>> /\ verdict # NoVerdict
        => verdict.condition = RightNested([i \in 1..Len(chain) |-> ElementTerm(chain[i])])

\* A chain of three elements or more, one of them a parenthesised
\* sub-chain, was lowered.
C8_Witness ==
    /\ verdict # NoVerdict
    /\ Len(chain) >= 3
    /\ \E i \in 1..Len(chain) : chain[i] = ChainAtoms[7]
    /\ \E i, j \in 1..Len(chain) : chain[i] # chain[j]

\* C10: verify_condition asserts the negation of the formula, returns true
\* exactly when the solver answers unsat, and reports sat (with the values
\* of the identifiers of the environment) and unknown as different
\* outcomes, both returning false.
C10_ValidExactlyOnUnsat ==
    verdict # NoVerdict =>
        /\ verdict.checked = <<<<>>, <<<<"not", verdict.condition>>>>>>
        /\ verdict.result = (verdict.answer = "unsat")
        /\ verdict.answer \in {"unsat", "sat", "unknown"}
        /\ verdict.answer = "sat" =>
              /\ verdict.printed[1] = "Condition is not valid (counterexample found)."
              /\ verdict.printed[Len(verdict.printed)] = verdict.names
        /\ verdict.answer = "unknown" =>
              verdict.printed = <<"Solver could not determine validity.">>
        /\ verdict.answer = "unsat" =>
              verdict.printed = <<"Condition is valid (unsatisfiable when negated).">>
        /\ verdict.solver.frames = NewSolver.frames

\* The solver answered sat for a formula over an identifier: a
\* counterexample was printed and the formula was not taken for valid.
C10_Witness ==
    /\ verdict.answer = "sat"
    /\ verdict.names # {}
    /\ ~verdict.result

\* Solvers a call of verify_condition may be handed: the new one, one that
\* holds an assertion, one with a level pushed and an assertion on it.
PriorSolvers ==
    { NewSolver,
      SolverAssert(NewSolver, <<"bool", TRUE>>),
      SolverAssert(SolverPush(SolverAssert(NewSolver, <<"bool", TRUE>>)),
                   <<"gt", <<"const", "x">>, <<"int", 0>>>>) }

Answers == {"unsat", "sat", "unknown"}

\* The calls of kind (push, pop, ...) logged by a call that started at sv.
Logged(sv, after, kind) ==
    Cardinality({ k \in (Len(sv.log) + 1)..Len(after.log) : after.log[k][1] = kind })

\* C11: for each of the three answers of the solver, verify_condition
\* makes one push and one pop, so the solver has the frames it had before
\* the call, and a later check on that solver is made with the frames of
\* before and its own negated formula only.
C11_PushMatchedByPop ==
    verdict # NoVerdict =>
        /\ verdict.solver.frames = NewSolver.frames
        /\ \A sv \in PriorSolvers, answer \in Answers :
              LET call == VerifyCondition(sv, verdict.condition, verdict.names, answer)
                  later == VerifyCondition(call.solver, <<"bool", FALSE>>, {}, answer)
              IN /\ call.solver.frames = sv.frames
                 /\ Logged(sv, call.solver, "push") = 1
                 /\ Logged(sv, call.solver, "pop") = 1
                 /\ call.checked = Append(sv.frames, <<<<"not", verdict.condition>>>>)
                 /\ later.checked = Append(sv.frames, <<<<"not", <<"bool", FALSE>>>>>>)

\* A call that ended with the answer unknown: two frames were checked and
\* one is left.
C11_Witness ==
    /\ verdict.answer = "unknown"
    /\ Len(verdict.checked) = 2
    /\ Len(verdict.solver.frames) = 1
    /\ Logged(NewSolver, verdict.solver, "pop") = 1

\* ---- the builder and the post-processor ----
OutEdges(g, n) == { k \in 1..Len(g.edges) : g.edges[k][1] = n }

\* A MergePoint with exactly one outgoing edge, to a node that is no
\* MergePoint: the kind post_process splices out.
SpliceableMergePoints(g) ==
    { n \in 1..Len(g.nodes) :
        /\ Kind(g, n) = "MergePoint"
        /\ Cardinality(OutEdges(g, n)) = 1
        /\ \A k \in OutEdges(g, n) : Kind(g, g.edges[k][2]) # "MergePoint" }

\* C13: after post_process no MergePoint is left that has exactly one
\* outgoing edge whose target is not a MergePoint.
C13_NoSpliceableMergePointLeft ==
    pc = "paths" => SpliceableMergePoints(builder) = {}

\* post_process received a graph with two such merge points or more, one of
\* them entered by two edges, and removed nodes from it.
C13_Witness ==
    /\ pc = "paths"
    /\ Cardinality(SpliceableMergePoints(built)) >= 2
    /\ \E n \in SpliceableMergePoints(built) :
          Cardinality({ k \in 1..Len(built.edges) : built.edges[k][2] = n }) >= 2
    /\ Len(builder.nodes) < Len(built.nodes)

\* The labels on the outgoing edges of node n.
OutLabels(g, n) == { g.edges[k][3] : k \in OutEdges(g, n) }

ConditionNodes(g) == { n \in 1..Len(g.nodes) : Kind(g, n) = "Condition" }

\* C14: in the graph the visitor built and in the graph post_process
\* left, every Condition node has an outgoing edge labelled "true" and an
\* outgoing edge labelled "false".
C14_ConditionHasTrueAndFalseEdge ==
    \A g \in {built, Graph(builder)} : \A n \in ConditionNodes(g) :
        {"true", "false"} \subseteq OutLabels(g, n)

\* The loops of a block, each with the statement before it in that block
\* (<<>> for a loop that opens its block).
RECURSIVE LoopsIn(_)
LoopsIn(stmts) ==
    UNION { LET st == stmts[k]
                e == IF st[1] \in {"Semi", "Expr"} THEN st[2] ELSE <<"None">>
            IN CASE e[1] = "While" ->
                      {[loop |-> e, before |-> IF k = 1 THEN <<>> ELSE stmts[k - 1]]}
                          \cup LoopsIn(e[3])
                 [] e[1] = "ForLoop" ->
                      {[loop |-> e, before |-> IF k = 1 THEN <<>> ELSE stmts[k - 1]]}
                          \cup LoopsIn(e[4])
                 [] e[1] = "If" ->
                      LoopsIn(e[3]) \cup
                      (IF e[4] = <<>> THEN {}
                       ELSE IF e[4][1][1] = "Block" THEN LoopsIn(e[4][1][2])
                       ELSE LoopsIn(<<<<"Expr", e[4][1]>>>>))
                 [] OTHER -> {}
          : k \in 1..Len(stmts) }

IsInvariantStmt(st) == st # <<>> /\ st[1] = "Semi" /\ st[2][1] = "Macro" /\ st[2][2] = "invariant"

\* The weight of the Condition node of a loop.
GuardOf(loop) == IF loop[1] = "While" THEN <<"While", loop[2]>> ELSE <<"ForLoop", loop>>

\* n is the head the loop l of the source was given in g: the node before
\* the loop's Condition node, entered by an edge labelled "back to loop";
\* the Invariant node of the invariant! statement before the loop, or else
\* a Cutoff node that leads to this loop's guard and nowhere else.
IsLoopHead(g, l, n) ==
    /\ \E c \in ConditionNodes(g) :
          /\ g.nodes[c][3] = GuardOf(l.loop)
          /\ \E k \in OutEdges(g, n) : g.edges[k][2] = c
          /\ Kind(g, n) = "Cutoff" => \A k \in OutEdges(g, n) : g.edges[k][2] = c
    /\ \E k \in 1..Len(g.edges) : g.edges[k][2] = n /\ g.edges[k][3] = "back to loop"
    /\ IF IsInvariantStmt(l.before)
       THEN g.nodes[n] = CfgInvariant(FormatMacroArgs(l.before[2][3]), l.before[2])
       ELSE Kind(g, n) = "Cutoff"

\* C15: after post-processing every loop of a processed function has its
\* head in the graph: entered by an edge labelled "back to loop", and the
\* Invariant node of the invariant! statement just before the loop when
\* there is one, a Cutoff node of its own otherwise.
C15_LoopHasBackEdgeToHead ==
    pc = "paths" =>
        \A f \in 1..Len(file) : ContainsMacros(file[f].stmts) =>
            \A l \in LoopsIn(file[f].stmts) :
                \E n \in 1..Len(builder.nodes) : IsLoopHead(Graph(builder), l, n)

\* The macro statements `name!(...);` of a block, in source order, those
\* inside the branches of an if and the body of a loop included.
RECURSIVE MacrosIn(_)
MacrosIn(stmts) ==
    Concat([k \in 1..Len(stmts) |->
        LET st == stmts[k]
            e == IF st[1] \in {"Semi", "Expr"} THEN st[2] ELSE <<"None">>
        IN CASE e[1] = "Macro" -> <<e>>
             [] e[1] = "While" -> MacrosIn(e[3])
             [] e[1] = "ForLoop" -> MacrosIn(e[4])
             [] e[1] = "If" ->
                  MacrosIn(e[3]) \o
                  (IF e[4] = <<>> THEN <<>>
                   ELSE IF e[4][1][1] = "Block" THEN MacrosIn(e[4][1][2])
                   ELSE MacrosIn(<<<<"Expr", e[4][1]>>>>))
             [] OTHER -> <<>>])

\* The macros of MacrosIn(stmts) that are called name.
Annotations(stmts, name) == SelectSeqBy(MacrosIn(stmts), 2, name)

\* The functions of the file that visit_item_fn has been given.
Visited == 1..(next_fn - 1)

\* The node the annotation macro m is to become.
AnnotationNode(m) ==
    CASE m[2] = "pre" -> CfgPrecondition(FormatMacroArgs(m[3]), m)
      [] m[2] = "post" -> CfgPostcondition(FormatMacroArgs(m[3]), m)
      [] OTHER -> CfgInvariant(FormatMacroArgs(m[3]), m)

\* C16: for every pre! and invariant! statement of a processed function,
\* at the top of the body or nested, the graph holds the Precondition,
\* respectively Invariant, node carrying its formula, entered by an edge,
\* and holds no node of another kind made from that statement.
C16_AnnotationBecomesItsNode ==
    pc \in {"visit", "post_process"} =>
    \A f \in Visited : ContainsMacros(file[f].stmts) =>
        \A name \in {"pre", "invariant"} :
            \A k \in 1..Len(Annotations(file[f].stmts, name)) :
                LET m == Annotations(file[f].stmts, name)[k]
                IN /\ \E n \in 1..Len(builder.nodes) :
                        /\ builder.nodes[n] = AnnotationNode(m)
                        /\ \E j \in 1..Len(builder.edges) : builder.edges[j][2] = n
                   /\ \A n \in 1..Len(builder.nodes) :
                        builder.nodes[n][1] = "Statement" =>
                            builder.nodes[n][2] # <<"Call", ":">> \o ToTokens(m)

\* The nodes of g from the Function node of the j-th processed function up
\* to the node before the next Function node.
FunctionStarts(g) ==
    LET IsFunction(k) == Kind(g, k) = "Function" IN SelectSeq(NodeIndices(g), IsFunction)

Segment(g, j) ==
    SubSeq(g.nodes, FunctionStarts(g)[j],
           IF j < Len(FunctionStarts(g)) THEN FunctionStarts(g)[j + 1] - 1 ELSE Len(g.nodes))

\* The visited functions that visit_item_fn processed, in file order.
Processed ==
    LET Has(f) == ContainsMacros(file[f].stmts) IN SelectSeq([f \in Visited |-> f], Has)

\* The visited functions with an annotation anywhere in the body, in file
\* order.
Annotated ==
    LET Has(f) == \E k \in 1..Len(MacrosIn(file[f].stmts)) :
                      MacrosIn(file[f].stmts)[k][2] \in AnnotationMacros
    IN SelectSeq([f \in Visited |-> f], Has)

\* C17: after each function the deferred buffer is empty, and the part of
\* the graph made from a processed function ends with the Postcondition
\* nodes of its post! statements, nested ones included, one for each, in
\* source order, and holds no other Postcondition node.
C17_PostconditionsDeferredToTheEnd ==
    pc \in {"visit", "post_process"} =>
        /\ builder.posts = <<>>
        /\ Len(FunctionStarts(builder)) = Len(Processed)
        /\ \A j \in 1..Len(Processed) :
              LET posts == Annotations(file[Processed[j]].stmts, "post")
                  segment == Segment(builder, j)
              IN /\ Len(SelectSeqBy(segment, 1, "Postcondition")) = Len(posts)
                 /\ Len(segment) > Len(posts)
                 /\ SubSeq(segment, Len(segment) - Len(posts) + 1, Len(segment))
                        = [k \in 1..Len(posts) |-> AnnotationNode(posts[k])]

\* C18: the functions processed are those with a pre!, post!, invariant!
\* or build_cfg! statement anywhere in the body: the graph holds the
\* Function node of each of them, in file order, and no other; as long as
\* no such function has been visited the builder is as it was created.
C18_ProcessedIffAnnotated ==
    pc \in {"visit", "post_process"} =>
        /\ SelectSeqBy(builder.nodes, 1, "Function")
              = [j \in 1..Len(Annotated) |->
                    CfgFunction(file[Annotated[j]].name, file[Annotated[j]])]
        /\ Annotated = <<>> => builder = NewBuilder

\* The run is on the route of run_verification: the formulas are those of
\* apply_substitution, which keeps no walk.
OnRunVerification == pc \in {"verify", "done"} /\ trace = <<>>

\* The labels of the edges of g from path[k] to path[k + 1].
StepLabels(g, path, k) == Labels(g, path[k], path[k + 1])

\* The formula, lowered, is true under every valuation of its constants.
Valid(formula) ==
    /\ LowerFormula(formula).s = "Bool"
    /\ \A val \in Valuations(LowerFormula(formula).vars) :
           TermValue(LowerFormula(formula).t, val)

\* C19: for the triangular-sum function the run has three paths, from the
\* Precondition to the Invariant, from the Invariant over the false edge of
\* the guard to the Postcondition, and from the Invariant over the true
\* edge of the guard and the body back to the Invariant, and three
\* formulas, each of them valid.
C19_TriangularSumThreeValidPaths ==
    file = <<TriangularSum>> /\ OnRunVerification =>
        /\ Len(paths) = 3
        /\ \E a, b, c \in 1..Len(paths) :
              LET Ends(p, from, to) ==
                      Kind(cfg, paths[p][1]) = from /\ Kind(cfg, paths[p][Len(paths[p])]) = to
                  Takes(p, label) ==
                      \E k \in 1..(Len(paths[p]) - 1) :
                          /\ Kind(cfg, paths[p][k]) = "Condition"
                          /\ label \in StepLabels(cfg, paths[p], k)
              IN /\ {a, b, c} = 1..3
                 /\ Ends(a, "Precondition", "Invariant")
                 /\ Ends(b, "Invariant", "Postcondition") /\ Takes(b, "false")
                 /\ Ends(c, "Invariant", "Invariant") /\ Takes(c, "true")
        /\ Len(formulas) = 3
        /\ \A k \in 1..Len(formulas) : Valid(formulas[k])

\* C20: for fn g the run has two paths, from the Precondition over the true
\* edge of the condition to the Postcondition x >= 0 and over its false
\* edge to the Postcondition x <= 0, and two formulas, each of them valid.
C20_IfElseTwoValidPaths ==
    file = <<IfElsePosts>> /\ OnRunVerification =>
        /\ Len(paths) = 2
        /\ \E a, b \in 1..Len(paths) :
              LET To(p, label, text) ==
                      /\ Kind(cfg, paths[p][1]) = "Precondition"
                      /\ cfg.nodes[paths[p][Len(paths[p])]][1] = "Postcondition"
                      /\ cfg.nodes[paths[p][Len(paths[p])]][2] = text
                      /\ \E k \in 1..(Len(paths[p]) - 1) :
                            /\ Kind(cfg, paths[p][k]) = "Condition"
                            /\ label \in StepLabels(cfg, paths[p], k)
              IN /\ a # b
                 /\ To(a, "true", <<"x", ">=", "0">>)
                 /\ To(b, "false", <<"x", "<=", "0">>)
        /\ Len(formulas) = 2
        /\ \A k \in 1..Len(formulas) : Valid(formulas[k])

\* C12: whatever the verdict on a formula is, the run goes on with the
\* next formula of the list: each verdict is on the formula whose turn it
\* is, the run returns only when every formula has had its verdict, and it
\* is cut short only when the lowering of a formula aborts, never by a
\* verdict.
C12_VerdictNeverStopsTheRun ==
    [][ /\ verdict' # verdict =>
              /\ pc' = "verify"
              /\ next_formula' = next_formula + 1
              /\ formulas' = formulas
              /\ verdict'.condition = LowerFormula(formulas[next_formula]).t
        /\ pc' = "done" => pc = "verify" /\ next_formula = Len(formulas) + 1
        /\ pc = "verify" /\ pc' = "aborted" =>
              verdict' = verdict /\ LowerFormula(formulas[next_formula]).s = "Panic"
      ]_vars

\* run_verification has returned after three formulas, none of them valid,
\* the last one judged invalid with a counterexample.
C12_Witness ==
    /\ pc = "done"
    /\ OnRunVerification
    /\ Len(formulas) = 3
    /\ next_formula = 4
    /\ \A k \in 1..Len(formulas) : ~Valid(formulas[k])
    /\ verdict.answer = "sat"

\* C21: generate_simple_paths and the walker that follows it leave the
\* graph as generate_simple_paths received it: the same nodes with the same
\* text and expression, the same edges with the same labels.
C21_GraphOnlyRead ==
    pc \in {"wp", "verify", "done", "aborted"} => Graph(builder) = cfg

\* ------------------------------------------------------------------------
\* The substitution alone: recursive_substitution on a written expression
\* ------------------------------------------------------------------------
SubstAtoms == {ExprX, ExprN, <<"Lit", "1">>}

SubstShallow ==
    SubstAtoms
    \cup { <<"Macro", "invariant", <<"x", ">=", "0">>>>,
           <<"Macro", "post", <<"n", "+", "(", "x", "-", "1", ")", "==", "3">>>> }
    \cup { <<"Binary", "+", a, b>> : a, b \in SubstAtoms }
    \cup { <<"Unary", "-", a>> : a \in SubstAtoms }
    \cup { <<"Paren", a>> : a \in SubstAtoms }
    \cup { <<"Call", <<"Path", "v">>, <<a>>>> : a \in SubstAtoms }

SubstCompound ==
    UNION { { <<"Binary", "+", s, a>>,
              <<"Unary", "!", s>>,
              <<"Paren", s>>,
              <<"Call", <<"Path", "v">>, <<s, a>>>>,
              <<"Block", << <<"Semi", s>>, <<"Local", <<"Ident", "i", FALSE>>, a>> >>>>,
              <<"If", s, << <<"Expr", a>> >>, <<>>>>,
              <<"If", a, << <<"Semi", s>> >>, << <<"Block", << <<"Expr", a>> >>>> >>>> }
            : s \in SubstShallow, a \in SubstAtoms }

SubstExprs == SubstShallow \cup SubstCompound

SubstVars == {"x", "n", "i"}

SubstReplacements == {<<"Lit", "2">>, XPlus1}

\* chain holds the call's arguments <<expr, var, replacement>>, trace the
\* expression returned.
InitSubst ==
    /\ pc = "subst"
    /\ chain \in { <<e, x, r>> : e \in SubstExprs, x \in SubstVars, r \in SubstReplacements }
    /\ file = <<>>
    /\ next_fn = 1
    /\ builder = NewBuilder
    /\ built = NoGraph
    /\ cfg = NoGraph
    /\ paths = <<>>
    /\ diverged = FALSE
    /\ trace = <<>>
    /\ formulas = <<>>
    /\ next_formula = 1
    /\ verdict = NoVerdict

CallRecursiveSubstitution ==
    /\ pc = "subst"
    /\ trace' = <<RecursiveSubstitution(chain[1], chain[2], chain[3])>>
    /\ pc' = "substituted"
    /\ UNCHANGED <<file, next_fn, builder, built, cfg, paths, diverged, formulas,
                   next_formula, verdict, chain>>

NextSubst == CallRecursiveSubstitution

SpecSubst == InitSubst /\ [][NextSubst]_vars

\* The identifiers written in e.
Occurring(e) == { t \in Range(ToTokens(e)) : IsIdent(t) }

\* C22: recursive_substitution(e, x, r) returns e when the identifier x
\* is not written in e.
C22_SubstitutionOfAbsentVariable ==
    pc = "substituted" /\ chain[2] \notin Occurring(chain[1]) => trace = <<chain[1]>>

\* The call was made on an if expression whose branch holds an annotation
\* macro that mentions x, for the variable i, which is not written in it.
C22_Witness ==
    /\ pc = "substituted"
    /\ chain[1][1] = "If"
    /\ chain[1][3][1][2][1] = "Macro"
    /\ "x" \in Occurring(chain[1])
    /\ chain[2] = "i"
    /\ "i" \notin Occurring(chain[1])
    /\ trace = <<chain[1]>>

\* C23: the formulas run_verification hands to the verifier are the
\* >>-chains apply_wp_calculus computes for the paths, path by path.
C23_VerifiedFormulasAreWpChains ==
    OnRunVerification => formulas = ApplyWpCalculus(builder, paths)

\* The Condition nodes of cfg that generate_simple_paths left by an edge.
Traversed ==
    { n \in ConditionNodes(cfg) : cfg.nodes[n][3] # <<>> /\ builder.nodes[n] # cfg.nodes[n] }

\* C24: when generate_simple_paths has returned, a Condition node it went
\* through holds its source condition c or the one negation !(c) of it,
\* under the label "assume: " followed by that expression.
C24_ConditionNegatedAtMostOnce ==
    pc \in {"wp", "verify", "done", "aborted"} =>
        \A n \in Traversed :
            LET c == cfg.nodes[n][3]
                held == builder.nodes[n][3]
            IN /\ held \in {c, <<c[1], NegateCondition(c[2])>>}
               /\ builder.nodes[n][2] = <<"assume", ":">> \o ConditionalTokens(held)

\* C25: a Return node has no outgoing edge, in the graph the visitor built
\* and in the graph post_process left, and no path that was found goes
\* through a Return node.
C25_ReturnIsASink ==
    /\ \A g \in {built, Graph(builder)} :
          \A n \in 1..Len(g.nodes) : Kind(g, n) = "Return" => OutEdges(g, n) = {}
    /\ \A p \in 1..Len(paths) : \A k \in 1..Len(paths[p]) : Kind(cfg, paths[p][k]) # "Return"

\* C26: a Postcondition node has no outgoing edge, in the graph the
\* visitor built and in the graph post_process left, and no path that was
\* found goes on after a Postcondition node.
C26_PostconditionIsASink ==
    /\ \A g \in {built, Graph(builder)} :
          \A n \in 1..Len(g.nodes) : Kind(g, n) = "Postcondition" => OutEdges(g, n) = {}
    /\ \A p \in 1..Len(paths) : \A k \in 1..(Len(paths[p]) - 1) :
          Kind(cfg, paths[p][k]) # "Postcondition"

\* ------------------------------------------------------------------------
\* The lowering alone: verify_conditions_for_paths on a written formula
\* ------------------------------------------------------------------------
\* Operands written so that they need no parentheses next to an operator:
\* identifiers, literals of both sorts, groups of both sorts, annotation
\* wrappers of both sorts, a negative number, a macro of another name.
SortAtoms ==
    { <<"x">>, <<"n">>, <<"1">>, <<"true">>,
      <<"(", "x", "<", "n", ")">>,
      <<"(", "x", "+", "1", ")">>,
      <<"pre", "!", "(", "x", ">=", "0", ")">>,
      <<"invariant", "!", "(", "x", ")">>,
      <<"-", "x">>,
      <<"v", "!", "(", "x", ">", "0", ")">> }

SortTexts ==
    LET ops == {"&&", "||", "==", "!=", "<=", ">=", "<", ">", "+", "-", "*", "/", ">>", "<<"}
    IN SortAtoms
       \cup { <<"!">> \o a : a \in SortAtoms }
       \cup { a \o <<op>> \o b : a, b \in SortAtoms, op \in ops }

\* chain holds the text handed to verify_conditions_for_paths.
InitSort ==
    /\ pc = "verify"
    /\ chain \in { <<text>> : text \in SortTexts }
    /\ formulas = chain
    /\ file = <<>>
    /\ next_fn = 1
    /\ builder = NewBuilder
    /\ built = NoGraph
    /\ cfg = NoGraph
    /\ paths = <<>>
    /\ diverged = FALSE
    /\ trace = <<>>
    /\ next_formula = 1
    /\ verdict = NoVerdict

NextSort ==
    \/ VerifyNext
    \/ Finish

SpecSort == InitSort /\ [][NextSort]_vars

\* The sort the supported constructs give an expression: "Int", "Bool",
\* or "None" when a construct is unsupported or an operand has the wrong
\* sort.
RECURSIVE SortOf(_)
SortOf(e) ==
    LET Both(s) == SortOf(e[3]) = s /\ SortOf(e[4]) = s
    IN CASE e[1] = "Lit" -> IF e[2] \in BoolLitTokens THEN "Bool" ELSE "Int"
         [] e[1] = "Path" -> "Int"
         [] e[1] = "Paren" -> SortOf(e[2])
         [] e[1] = "Macro" /\ e[2] \in {"pre", "post", "invariant"} /\ ParseExpr(e[3]).ok ->
               SortOf(ParseExpr(e[3]).e)
         [] e[1] = "Unary" /\ e[2] = "!" /\ SortOf(e[3]) = "Bool" -> "Bool"
         [] e[1] = "Binary" /\ e[2] \in {"&&", "||", ">>"} /\ Both("Bool") -> "Bool"
         [] e[1] = "Binary" /\ e[2] = "==" /\ (Both("Bool") \/ Both("Int")) -> "Bool"
         [] e[1] = "Binary" /\ e[2] \in {"<=", ">=", "<", ">"} /\ Both("Int") -> "Bool"
         [] e[1] = "Binary" /\ e[2] \in {"+", "-", "*", "/"} /\ Both("Int") -> "Int"
         [] OTHER -> "None"

\* The sort of a solver term, "None" when an argument has the wrong sort.
RECURSIVE TermSort(_)
TermSort(t) ==
    LET Args(s) == \A k \in 2..Len(t) : TermSort(t[k]) = s
    IN CASE t[1] \in {"int", "const"} -> "Int"
         [] t[1] = "bool" -> "Bool"
         [] t[1] \in {"not", "and", "or", "implies"} /\ Args("Bool") -> "Bool"
         [] t[1] = "eq" /\ (Args("Bool") \/ Args("Int")) -> "Bool"
         [] t[1] \in {"le", "ge", "lt", "gt"} /\ Args("Int") -> "Bool"
         [] t[1] \in {"add", "sub", "mul", "div"} /\ Args("Int") -> "Int"
         [] OTHER -> "None"

\* The constants of a solver term.
RECURSIVE TermConsts(_)
TermConsts(t) ==
    CASE t[1] = "const" -> {t}
      [] t[1] \in {"int", "bool"} -> {}
      [] OTHER -> UNION { TermConsts(t[k]) : k \in 2..Len(t) }

\* The identifiers written in a text, macro names apart.
IdentifiersOf(text) ==
    { text[k] : k \in { j \in 1..Len(text) :
                            IsIdent(text[j]) /\ ~(j < Len(text) /\ text[j + 1] = "!") } }

C28_BranchLabelsStayOnBranches ==
    \A g \in {built, Graph(builder)} :
       /\ \A k \in 1..Len(g.edges) :
             g.edges[k][3] \in {"true", "false"} => Kind(g, g.edges[k][1]) = "Condition"
       /\ \A n \in ConditionNodes(g) : \A j, k \in OutEdges(g, n) :
             g.edges[j][3] = g.edges[k][3] /\ g.edges[j][3] \in {"true", "false"} => j = k

\* C29: when apply_wp_calculus returns, it returns one formula for each
\* path, in the order of the paths: the i-th formula is the working
\* condition at the end of the walk of the i-th path.
C29_OneFormulaPerPath ==
    pc \in {"verify", "done"} /\ trace # <<>> =>
        /\ Len(formulas) = Len(paths)
        /\ \A i \in 1..Len(paths) :
              /\ WpOfWalk(trace[i]) # NoExpr
              /\ formulas[i] = ToTokens(WpOfWalk(trace[i]))

\* apply_wp_calculus returned the formulas of two paths or more, one of
\* them a path from a Cutoff node to a Cutoff node, on which only the loop
\* condition has an expression.
C29_Witness ==
    /\ pc = "verify"
    /\ trace # <<>>
    /\ Len(paths) >= 2
    /\ Len(formulas) = Len(paths)
    /\ \E i, j \in 1..Len(paths) : formulas[i] # formulas[j]
    /\ \E i \in 1..Len(paths) :
          /\ Kind(cfg, paths[i][1]) = "Cutoff"
          /\ Kind(cfg, paths[i][Len(paths[i])]) = "Cutoff"

\* ---- post_process as a transformation of the graph ----
\* The graph with each node carrying, as a fourth field, the index it has
\* in g.
Tagged(g) == [g EXCEPT !.nodes = [k \in 1..Len(g.nodes) |-> Append(g.nodes[k], k)]]

\* t is reached from m along MergePoint nodes only (m itself being t or a
\* MergePoint), in no more than fuel edges.
RECURSIVE ThroughMergePoints(_, _, _, _)
ThroughMergePoints(g, m, t, fuel) ==
    \/ m = t
    \/ /\ fuel > 0
       /\ Kind(g, m) = "MergePoint"
       /\ \E k \in OutEdges(g, m) : ThroughMergePoints(g, g.edges[k][2], t, fuel - 1)

\* The control flow between the nodes that are no MergePoint: <<u, t, l>>
\* when an edge labelled l leaves u and leads to t, directly or through
\* MergePoints; u and t are named by the fourth field of the node.
Flow(g) ==
    { <<g.nodes[g.edges[k][1]][4], g.nodes[t][4], g.edges[k][3]>> :
        <<k, t>> \in { <<k, t>> \in (1..Len(g.edges)) \X (1..Len(g.nodes)) :
                          /\ Kind(g, g.edges[k][1]) # "MergePoint"
                          /\ Kind(g, t) # "MergePoint"
                          /\ ThroughMergePoints(g, g.edges[k][2], t, Len(g.nodes)) } }

\* The nodes that are no MergePoint, as <<index before, kind, expression>>.
KeptNodes(g) ==
    { <<g.nodes[k][4], g.nodes[k][1], g.nodes[k][3]>> :
        k \in { j \in 1..Len(g.nodes) : Kind(g, j) # "MergePoint" } }

\* C30: post_process keeps every node that is no MergePoint, with its kind
\* and expression, and the control flow between those nodes: u leads to t
\* by an edge labelled l, directly or through MergePoints, after
\* post_process exactly when it did before.
C30_PostProcessPreservesFlow ==
    pc = "paths" =>
        LET before == Tagged(built)
            after == PostProcessLoop(before, MergeNodeIndices(before))
        IN /\ [k \in 1..Len(after.nodes) |-> SubSeq(after.nodes[k], 1, 3)]
                 = PostProcessLoop(built, MergeNodeIndices(built)).nodes
           /\ KeptNodes(after) = KeptNodes(before)
           /\ Flow(after) = Flow(before)

====
